---- MODULE Spec2Model ----
(***************************************************************************)
(* Resumable SAPI ingestion pipeline: the run ledger, the append-only raw  *)
(* page store, the index upsert store and the backfill worker that         *)
(* sequences fetch -> persist -> checkpoint, one storage transaction per   *)
(* page.                                                                   *)
(*                                                                         *)
(* Storage is a record db of five tables.  A transaction is a working copy *)
(* tx of db: statements write tx, commit installs tx as db, rollback drops *)
(* it.  There is one sequential worker (worker.py is a plain loop), so a   *)
(* working copy is exactly what the open transaction sees.                 *)
(*                                                                         *)
(* Python None is the string "None"; a NULL timestamp is 0 and the clock   *)
(* starts at 1.  hasMore is "True", "False" or None, as the worker tests   *)
(* it with "is False".                                                     *)
(***************************************************************************)
EXTENDS Integers, Sequences, FiniteSets, TLC

None == "None"
NoTime == 0

\* ledger.py:40-43
STATUS_STARTED == "started"
STATUS_RUNNING == "running"
STATUS_COMPLETED == "completed"
STATUS_FAILED == "failed"

(***************************************************************************)
(* Bounds of the model.                                                    *)
(***************************************************************************)
\* a page is fetched for a run only while its pages_processed is below this
MaxPagesRun == 3
\* injected failures (fetch, storage, handshake) and process crashes
MaxFaults == 1
\* invocations of run_backfill
MaxCalls == 2

RunIds == {"r1", "r2"}
Scope(country, catalogs_bundle, params_fingerprint) ==
    [country |-> country, catalogs_bundle |-> catalogs_bundle,
     params_fingerprint |-> params_fingerprint]
Scopes == {Scope("de", "netflix,prime", "f1"), Scope("us", "netflix", "f2")}
Cursors == {"c1"}
CursorArgs == {None} \cup Cursors
HasMoreVals == {"True", "False", None}
\* worker.py:92: max_pages = None (no limit) is -1
NoLimit == -1
MaxPagesArgs == {NoLimit, 1, 2}

(***************************************************************************)
(* Sequence helpers.                                                       *)
(***************************************************************************)
RECURSIVE SumSeq(_)
SumSeq(s) == IF s = <<>> THEN 0 ELSE Head(s) + SumSeq(Tail(s))

RECURSIVE Concat(_)
Concat(ss) == IF ss = <<>> THEN <<>> ELSE Head(ss) \o Concat(Tail(ss))

Range(s) == {s[i] : i \in DOMAIN s}

(***************************************************************************)
(* Provider items and extraction (client/extract.py).  A raw show is a     *)
(* record with its id, title, streamingOptions flattened to a list of      *)
(* offers, and the kinds of its imageSet.                                  *)
(***************************************************************************)
RawOffer(country, service, type, quality, videoLink, since) ==
    [country |-> country, service |-> service, type |-> type,
     quality |-> quality, videoLink |-> videoLink, availableSince |-> since]

RawShows ==
    [s1 |-> [id |-> "s1", title |-> "T1",
             streamingOptions |->
                << RawOffer("de", "netflix", "subscription", "hd", None, 10),
                   RawOffer("de", "netflix", "subscription", "sd", "w1", 20),
                   RawOffer("de", "prime", "rent", "uhd", "w2", 5) >>,
             imageSet |-> << "verticalPoster" >>],
     s2 |-> [id |-> "s2", title |-> "T2",
             streamingOptions |->
                << RawOffer("de", "prime", "buy", None, None, 7) >>,
             imageSet |-> << >>]]

\* the item lists a page may carry
ShowLists == { << >>, << "s2" >>, << "s1", "s2" >> }

Pages == [shows : ShowLists, hasMore : HasMoreVals, nextCursor : CursorArgs]

\* extract.py:14-37
map_title(raw_json, fetched_at, run_id) ==
    [sapi_id |-> raw_json.id, title |-> raw_json.title,
     fetched_at |-> fetched_at, last_seen_run_id |-> run_id]

\* extract.py:40-78
map_offers(raw_json, fetched_at, run_id) ==
    [i \in DOMAIN raw_json.streamingOptions |->
        LET o == raw_json.streamingOptions[i] IN
        [sapi_id |-> raw_json.id, country |-> o.country, service_id |-> o.service,
         offer_type |-> o.type, watch_link |-> o.videoLink, quality |-> o.quality,
         available_since |-> o.availableSince,
         fetched_at |-> fetched_at, last_seen_run_id |-> run_id]]

\* extract.py:81-106
map_assets(raw_json, fetched_at, run_id) ==
    [i \in DOMAIN raw_json.imageSet |->
        [sapi_id |-> raw_json.id, asset_kind |-> raw_json.imageSet[i],
         fetched_at |-> fetched_at, last_seen_run_id |-> run_id]]

\* extract.py:109-130
extract_show(raw_json, fetched_at, run_id) ==
    [title |-> map_title(raw_json, fetched_at, run_id),
     offers |-> map_offers(raw_json, fetched_at, run_id),
     assets |-> map_assets(raw_json, fetched_at, run_id)]

\* worker.py:217-227: the three batches of one page
ExtractPage(shows, fetched_at, run_id) ==
    LET rec(i) == extract_show(RawShows[shows[i]], fetched_at, run_id) IN
    [titles |-> [i \in DOMAIN shows |-> rec(i).title],
     offers |-> Concat([i \in DOMAIN shows |-> rec(i).offers]),
     assets |-> Concat([i \in DOMAIN shows |-> rec(i).assets])]

EmptyBatch == [titles |-> << >>, offers |-> << >>, assets |-> << >>]

(***************************************************************************)
(* Raw page store (persistence/stores/raw.py).  The table is the sequence  *)
(* of its rows in insertion order (the autoincrement id is the position).  *)
(***************************************************************************)
\* a cursor column that keeps the absent cursor as NULL
keep_cursor_used(cursor_used) == cursor_used

\* raw.py:31-39: cursor_used or ""
normalize_cursor_used(cursor_used) ==
    IF cursor_used = None \/ cursor_used = "" THEN "" ELSE cursor_used

RawKey(row) == << row.run_id, row.cursor_used >>

\* raw.py:42-49: json.dumps with sort_keys: the members in key order
stable_json_bytes(payload) ==
    << << "hasMore", payload.hasMore >>, << "nextCursor", payload.nextCursor >>,
       << "shows", payload.shows >> >>

\* raw.py:52-56: SHA-256, taken as free of collisions
hash_bytes(blob) == << "sha256", blob >>

\* raw.py:86-118: the row built from the response
RawRow(run_id, cursor_used, fetched_at, response_json) ==
    [run_id |-> run_id,
     cursor_used |-> normalize_cursor_used(cursor_used),
     fetched_at |-> fetched_at,
     has_more |-> response_json.hasMore,
     next_cursor |-> response_json.nextCursor,
     items_count |-> Len(response_json.shows),
     response_json |-> response_json,
     response_hash |-> hash_bytes(stable_json_bytes(response_json))]

\* raw.py:127-139: rowcount of INSERT .. ON CONFLICT (run_id, cursor_used) DO NOTHING
\* (a NULL cursor_used would conflict with no row: raw.py:35-37)
append_inserted(raw, run_id, cursor_used) ==
    \A i \in DOMAIN raw :
        \/ normalize_cursor_used(cursor_used) = None
        \/ RawKey(raw[i]) # << run_id, normalize_cursor_used(cursor_used) >>

\* an append that overwrites the row of its key
append_overwrites(raw, run_id, cursor_used, fetched_at, response_json) ==
    IF append_inserted(raw, run_id, cursor_used)
    THEN Append(raw, RawRow(run_id, cursor_used, fetched_at, response_json))
    ELSE [i \in DOMAIN raw |->
            IF RawKey(raw[i]) = << run_id, normalize_cursor_used(cursor_used) >>
            THEN RawRow(run_id, cursor_used, fetched_at, response_json)
            ELSE raw[i]]

\* raw.py:69-155: the table after append_page
append_page(raw, run_id, cursor_used, fetched_at, response_json) ==
    IF append_inserted(raw, run_id, cursor_used)
    THEN Append(raw, RawRow(run_id, cursor_used, fetched_at, response_json))
    ELSE raw

(***************************************************************************)
(* Index upsert store (persistence/stores/indices.py).  A table is the     *)
(* sequence of its rows; the upsert key is the primary key (tables.py).    *)
(***************************************************************************)
\* the value of the conflict columns of a row (indices.py:296)
KeyOf(row, conflict_cols) == [i \in DOMAIN conflict_cols |-> row[conflict_cols[i]]]

\* tables.py:116, 172-181, 229-237: the primary keys
TitleCols == << "sapi_id" >>
OfferCols == << "sapi_id", "country", "service_id", "offer_type" >>
AssetCols == << "sapi_id", "asset_kind" >>

OfferKey(r) == KeyOf(r, OfferCols)

\* str.lower() on the quality values the provider sends
Lower(q) ==
    CASE q = "UHD" -> "uhd"
      [] q = "HD" -> "hd"
      [] q = "SD" -> "sd"
      [] OTHER -> q

\* indices.py:120-121
quality_rank(q) ==
    LET v == IF q = None \/ q = "" THEN "" ELSE Lower(q) IN
    CASE v = "uhd" -> 3
      [] v = "hd" -> 2
      [] v = "sd" -> 1
      [] OTHER -> 0

\* indices.py:134-147: does record r replace the current best cur of its key
OfferReplaces(r, cur) ==
    IF quality_rank(r.quality) > quality_rank(cur.quality) THEN TRUE
    ELSE IF r.watch_link # None /\ cur.watch_link = None THEN TRUE
    ELSE r.available_since > cur.available_since

\* a loop body that keeps every record
DedupeKeepsAll(best, r) == Append(best, r)

\* indices.py:126-147: one step of the loop over records; best keeps the
\* insertion order of the keys, as a Python dict does
DedupeStep(best, r) ==
    IF \E i \in DOMAIN best : OfferKey(best[i]) = OfferKey(r)
    THEN LET i == CHOOSE j \in DOMAIN best : OfferKey(best[j]) = OfferKey(r)
         IN  IF OfferReplaces(r, best[i]) THEN [best EXCEPT ![i] = r] ELSE best
    ELSE Append(best, r)

RECURSIVE DedupeFrom(_, _)
DedupeFrom(best, records) ==
    IF records = << >> THEN best
    ELSE DedupeFrom(DedupeStep(best, Head(records)), Tail(records))

\* indices.py:123-147
dedupe_offers(records) == DedupeFrom(<< >>, records)

\* a plain INSERT that a table without the unique key would accept
InsertRow(table, row, conflict_cols) == Append(table, row)

\* an upsert that overwrites every column but last_seen_run_id
UpsertKeepsRun(table, row, conflict_cols) ==
    IF \E i \in DOMAIN table : KeyOf(table[i], conflict_cols) = KeyOf(row, conflict_cols)
    THEN [i \in DOMAIN table |->
            IF KeyOf(table[i], conflict_cols) = KeyOf(row, conflict_cols)
            THEN [row EXCEPT !.last_seen_run_id = table[i].last_seen_run_id]
            ELSE table[i]]
    ELSE Append(table, row)

\* an upsert that leaves the stored row of its key as it is
UpsertKeepsOld(table, row, conflict_cols) ==
    IF \E i \in DOMAIN table : KeyOf(table[i], conflict_cols) = KeyOf(row, conflict_cols)
    THEN table ELSE Append(table, row)

\* INSERT .. ON CONFLICT (conflict_cols) DO UPDATE SET every other column =
\* excluded, for one row: indices.py:293-307
UpsertRow(table, row, conflict_cols) ==
    IF \E i \in DOMAIN table : KeyOf(table[i], conflict_cols) = KeyOf(row, conflict_cols)
    THEN [i \in DOMAIN table |->
            IF KeyOf(table[i], conflict_cols) = KeyOf(row, conflict_cols)
            THEN row ELSE table[i]]
    ELSE Append(table, row)

RECURSIVE UpsertRows(_, _, _)
UpsertRows(table, rows, conflict_cols) ==
    IF rows = << >> THEN table
    ELSE UpsertRows(UpsertRow(table, Head(rows), conflict_cols), Tail(rows), conflict_cols)

\* indices.py:242-326: the table after _bulk_upsert (the chunks are applied
\* in order, so the chunk size does not change the resulting table)
bulk_upsert(table, rows, conflict_cols) == UpsertRows(table, rows, conflict_cols)

\* indices.py:104-112
upsert_titles(table, records) == bulk_upsert(table, records, TitleCols)

\* indices.py:114-156
upsert_offers(table, records) == bulk_upsert(table, dedupe_offers(records), OfferCols)

\* indices.py:158-167
upsert_assets(table, records) == bulk_upsert(table, records, AssetCols)

\* indices.py:78: the default chunk size of the store
chunk_size == 1000

\* indices.py:331-337: the slices items[i : i + size] for i = 0, size, ..
RECURSIVE chunks(_, _)
chunks(items, size) ==
    IF items = << >> THEN << >>
    ELSE IF Len(items) <= size THEN << items >>
    ELSE << SubSeq(items, 1, size) >> \o chunks(SubSeq(items, size + 1, Len(items)), size)

\* indices.py:253-254, 282-314: the value _bulk_upsert returns, 0 for no
\* rows and otherwise the sum of the lengths of the chunks executed
bulk_upsert_total(rows) ==
    IF rows = << >> THEN 0
    ELSE LET cs == chunks(rows, chunk_size) IN
         SumSeq([i \in DOMAIN cs |-> Len(cs[i])])

\* indices.py:107-112: the value upsert_titles returns
upsert_titles_total(records) == bulk_upsert_total(records)

\* indices.py:149-156: the value upsert_offers returns, counted over the
\* rows left by _dedupe_offers
upsert_offers_total(records) == bulk_upsert_total(dedupe_offers(records))

\* indices.py:162-167: the value upsert_assets returns
upsert_assets_total(records) == bulk_upsert_total(records)

(***************************************************************************)
(* Run ledger (pipeline/ledger.py).  The table is a function from the      *)
(* run_ids that have a row (run_id is the primary key) to the row.         *)
(***************************************************************************)
\* ledger.py:137-149
NewLedgerRow(run_id, scope, now) ==
    [run_id |-> run_id, scope |-> scope, status |-> STATUS_STARTED,
     started_at |-> now, ended_at |-> NoTime, last_error |-> None,
     cursor_next |-> None, pages_processed |-> 0, items_processed |-> 0]

\* an ensure_started that writes a new row over the existing one
ensure_started_resets(ledger, run_id, scope, now) ==
    [r \in DOMAIN ledger \cup {run_id} |->
        IF r = run_id THEN NewLedgerRow(run_id, scope, now) ELSE ledger[r]]

\* an ensure_started that stores the scope passed in the existing row
ensure_started_rescopes(ledger, run_id, scope, now) ==
    IF run_id \in DOMAIN ledger
    THEN [ledger EXCEPT ![run_id].scope = scope]
    ELSE ledger @@ (run_id :> NewLedgerRow(run_id, scope, now))

\* ledger.py:121-169
ensure_started(ledger, run_id, scope, now) ==
    IF run_id \in DOMAIN ledger THEN ledger
    ELSE ledger @@ (run_id :> NewLedgerRow(run_id, scope, now))

\* a resume that starts over from the first page
get_cursor_first_page(ledger, run_id) == None

\* ledger.py:175-184
get_cursor_next(ledger, run_id) ==
    IF run_id \notin DOMAIN ledger THEN None ELSE ledger[run_id].cursor_next

\* a set_running that leaves last_error as it is
set_running_keeps_error(ledger, run_id) ==
    [r \in DOMAIN ledger |->
        IF r = run_id THEN [ledger[r] EXCEPT !.status = STATUS_RUNNING] ELSE ledger[r]]

\* a set_running that restarts the run from the first page
set_running_restarts(ledger, run_id) ==
    [r \in DOMAIN ledger |->
        IF r = run_id
        THEN [ledger[r] EXCEPT !.status = STATUS_RUNNING, !.last_error = None,
                               !.cursor_next = None]
        ELSE ledger[r]]

\* ledger.py:186-197
set_running(ledger, run_id) ==
    [r \in DOMAIN ledger |->
        IF r = run_id
        THEN [ledger[r] EXCEPT !.status = STATUS_RUNNING, !.last_error = None]
        ELSE ledger[r]]

\* a checkpoint that counts one item per page instead of items_count
checkpoint_counts_pages(ledger, run_id, next_cursor, has_more, items_count, now) ==
    [r \in DOMAIN ledger |->
        IF r = run_id
        THEN [ledger[r] EXCEPT
                !.status = IF has_more = "False" THEN STATUS_COMPLETED ELSE STATUS_RUNNING,
                !.ended_at = IF has_more = "False" THEN now ELSE NoTime,
                !.last_error = None,
                !.cursor_next = next_cursor,
                !.pages_processed = @ + 1,
                !.items_processed = @ + 1]
        ELSE ledger[r]]

\* a checkpoint that completes the run on every value of hasMore but True
checkpoint_completes_on_null(ledger, run_id, next_cursor, has_more, items_count, now) ==
    [r \in DOMAIN ledger |->
        IF r = run_id
        THEN [ledger[r] EXCEPT
                !.status = IF has_more # "True" THEN STATUS_COMPLETED ELSE STATUS_RUNNING,
                !.ended_at = IF has_more # "True" THEN now ELSE NoTime,
                !.last_error = None,
                !.cursor_next = next_cursor,
                !.pages_processed = @ + 1,
                !.items_processed = @ + items_count]
        ELSE ledger[r]]

\* a checkpoint that leaves last_error as it is
checkpoint_keeps_error(ledger, run_id, next_cursor, has_more, items_count, now) ==
    [r \in DOMAIN ledger |->
        IF r = run_id
        THEN [ledger[r] EXCEPT
                !.status = IF has_more = "False" THEN STATUS_COMPLETED ELSE STATUS_RUNNING,
                !.ended_at = IF has_more = "False" THEN now ELSE NoTime,
                !.cursor_next = next_cursor,
                !.pages_processed = @ + 1,
                !.items_processed = @ + items_count]
        ELSE ledger[r]]

\* ledger.py:199-240
checkpoint_after_page(ledger, run_id, next_cursor, has_more, items_count, now) ==
    [r \in DOMAIN ledger |->
        IF r = run_id
        THEN [ledger[r] EXCEPT
                !.status = IF has_more = "False" THEN STATUS_COMPLETED ELSE STATUS_RUNNING,
                !.ended_at = IF has_more = "False" THEN now ELSE NoTime,
                !.last_error = None,
                !.cursor_next = next_cursor,
                !.pages_processed = @ + 1,
                !.items_processed = @ + items_count]
        ELSE ledger[r]]

\* ledger.py:254-271
mark_failed(ledger, run_id, error, now) ==
    [r \in DOMAIN ledger |->
        IF r = run_id
        THEN [ledger[r] EXCEPT !.status = STATUS_FAILED, !.ended_at = now,
                               !.last_error = error]
        ELSE ledger[r]]

\* a mark_completed that also clears the checkpoint cursor
mark_completed_clears_cursor(ledger, run_id, now) ==
    [r \in DOMAIN ledger |->
        IF r = run_id
        THEN [ledger[r] EXCEPT !.status = STATUS_COMPLETED, !.ended_at = now,
                               !.last_error = None, !.cursor_next = None]
        ELSE ledger[r]]

\* ledger.py:273-287
mark_completed(ledger, run_id, now) ==
    [r \in DOMAIN ledger |->
        IF r = run_id
        THEN [ledger[r] EXCEPT !.status = STATUS_COMPLETED, !.ended_at = now,
                               !.last_error = None]
        ELSE ledger[r]]

\* ledger.py:300-308: the rows the query selects, and those first in its order
CompletedOfScope(ledger, scope) ==
    {r \in DOMAIN ledger :
        /\ ledger[r].scope.country = scope.country
        /\ ledger[r].scope.catalogs_bundle = scope.catalogs_bundle
        /\ ledger[r].scope.params_fingerprint = scope.params_fingerprint
        /\ ledger[r].status = STATUS_COMPLETED}

LatestFirst(ledger, a, b) ==
    \/ ledger[a].ended_at > ledger[b].ended_at
    \/ /\ ledger[a].ended_at = ledger[b].ended_at
       /\ ledger[a].started_at >= ledger[b].started_at

\* a query that takes the latest ended run of the scope, whatever its status
latest_ended_run_id(ledger, scope) ==
    LET c == {r \in DOMAIN ledger : ledger[r].scope = scope /\ ledger[r].ended_at # NoTime} IN
    IF c = {} THEN {None}
    ELSE {a \in c : \A b \in c : LatestFirst(ledger, a, b)}

\* ledger.py:293-309: the run_ids LIMIT 1 may return (the database picks any
\* of the rows that tie in the ORDER BY); {None} when no row matches
latest_completed_run_id(ledger, scope) ==
    LET c == CompletedOfScope(ledger, scope) IN
    IF c = {} THEN {None}
    ELSE {a \in c : \A b \in c : LatestFirst(ledger, a, b)}

(***************************************************************************)
(* Backfill worker (pipeline/worker.py) over the storage and the provider. *)
(***************************************************************************)
VARIABLES
    db,           \* committed storage: ledger, raw, titles, offers, assets
    tx,           \* << >> when no transaction is open, else << working copy >>
    provider,     \* the page the provider serves for each cursor argument
    run_ids,      \* the run ids the callers of run_backfill use
    clock,        \* the next value _utcnow_naive() returns
    faults,       \* failures and crashes injected so far
    calls,        \* invocations of run_backfill so far
    pc,           \* position of the worker in run_backfill
    run_id, max_pages,                 \* arguments of the invocation
    pages_done, cursor_next,           \* worker.py:157, 145/246
    cursor_used, fetched_at, resp,     \* worker.py:169, 192, 193
    batch,                             \* worker.py:217-227
    cause,        \* the exception that escaped the loop, None if none
    exc,          \* the exception that reaches the caller, None if none
    entry,        \* history: the run's ledger row as the handshake found it
    fetched,      \* history: the cursors requested by this invocation
    paused,       \* history: runs whose one invocation so far stopped at max_pages
    crashed,      \* history: << run, cursor >> of pages lost to a crash before commit
    \* the stores driven directly, without the worker (RawSpec, DedupeSpec, IndexSpec)
    raw_table,    \* sapi_raw_pages: the committed rows
    pending,      \* the rows each open session has inserted and not committed
    appended,     \* history: the append_page calls, with what each returned
    records,      \* the offer batch given to upsert_offers
    kept,         \* what _dedupe_offers returns for it
    dialect,      \* the dialect of the session's bind
    index,        \* the three index tables
    upserts,      \* history: the upsert statements executed
    \* the ledger store driven directly (LedgerSpec, RaceSpec)
    runs,         \* sapi_run_ledger: the committed rows, by run_id
    op,           \* the last ledger operation: its number, arguments and result
    callers,      \* the position of each concurrent caller of ensure_started
    \* the client driven directly (FetchSpec)
    requests,     \* the outcomes of the requests one fetch_data call has sent
    outcome       \* what the call did: still trying, returned a body, raised

args == << run_id, max_pages >>
page == << cursor_used, fetched_at, resp, batch >>
hist == << entry, fetched, paused, crashed >>
worker == << db, tx, provider, run_ids, clock, faults, calls, pc, args, pages_done,
            cursor_next, page, cause, exc, hist >>
ledger_lab == << runs, op, callers >>
client_lab == << requests, outcome >>
lab == << raw_table, pending, appended, records, kept, dialect, index, upserts, ledger_lab,
         client_lab >>
vars == << worker, lab >>

EmptyDb == [ledger |-> << >>, raw |-> << >>, titles |-> << >>,
            offers |-> << >>, assets |-> << >>]
NoResp == [shows |-> << >>, hasMore |-> None, nextCursor |-> None]
NoEntry == [fresh |-> FALSE, paused |-> FALSE, row |-> NewLedgerRow(None, None, NoTime)]

\* The provider of the scenario of the specification: two shows and cursor
\* "c1", then one show and the end.
ScenarioProvider ==
    [c \in CursorArgs |->
        IF c = None
        THEN [shows |-> << "s1", "s2" >>, hasMore |-> "True", nextCursor |-> "c1"]
        ELSE [shows |-> << "s2" >>, hasMore |-> "False", nextCursor |-> None]]

\* The cursors the provider hands out on the way from the first page.
HandedOut(p) == {p[None].nextCursor} \cup {p[c].nextCursor : c \in {p[None].nextCursor}}

\* The providers explored: the first page carries two shows, the page of
\* "c1" one show or none, with every hasMore and nextCursor.  The page of a
\* cursor the provider never hands out is never requested, and is fixed.
Providers ==
    {p \in [CursorArgs -> Pages] :
        /\ p[None].shows = << "s1", "s2" >>
        /\ \A c \in Cursors :
              IF c \in HandedOut(p)
              THEN p[c].shows \in { << "s2" >>, << >> }
              ELSE p[c] = ScenarioProvider[c]}

\* The callers' run ids: one run against every provider, two runs (and both
\* scopes) against the scenario provider.
Configs ==
    {cf \in [provider : Providers, run_ids : {{"r1"}, RunIds}] :
        cf.run_ids = RunIds => cf.provider = ScenarioProvider}

\* the stores before anything is done to them
\* no ledger operation yet, the clock not read yet.  before is NoRow when the run
\* of the operation has no row
NoRow == NewLedgerRow(None, None, NoTime)
NoOp == [n |-> 0, name |-> None, run_id |-> None, scope |-> None, page |-> None,
         before |-> NoRow, result |-> None, again |-> FALSE, now |-> 0]

LedgerIdle == runs = << >> /\ op = NoOp /\ callers = << >>

\* fetch_data not called
NoOutcome == [state |-> "idle", value |-> None]
ClientIdle == requests = << >> /\ outcome = NoOutcome

EmptyIndex == [titles |-> << >>, offers |-> << >>, assets |-> << >>]
LabIdle ==
    /\ raw_table = << >> /\ pending = << >> /\ appended = << >>
    /\ records = << >> /\ kept = << >>
    /\ dialect = "sqlite" /\ index = EmptyIndex /\ upserts = << >>
    /\ LedgerIdle /\ ClientIdle

Done == {"idle", "returned", "raised"}
TxPcs == {"tx_raw", "tx_extract", "tx_titles", "tx_offers", "tx_assets",
          "tx_checkpoint", "tx_commit"}

\* a rollback that leaves the ledger update of the failed transaction behind
RollbackKeepsLedger(committed, working) ==
    IF working = << >> THEN committed
    ELSE [committed EXCEPT !.ledger = working[1].ledger]

\* a rollback that leaves the raw page of the failed transaction behind
RollbackKeepsRaw(committed, working) ==
    IF working = << >> THEN committed
    ELSE [committed EXCEPT !.raw = working[1].raw]

\* engine.py:14-24 and Session.begin(): what is committed after a rollback
Rollback(committed, working) == committed

\* Session.begin() leaving its block without an exception: commit
Commit(committed, working) == working

\* the worker before run_backfill is called
WorkerStart ==
    /\ db = EmptyDb
    /\ tx = << >>
    /\ clock = 1
    /\ faults = 0
    /\ calls = 0
    /\ pc = "idle"
    /\ run_id = None /\ max_pages = NoLimit
    /\ pages_done = 0 /\ cursor_next = None
    /\ cursor_used = None /\ fetched_at = NoTime /\ resp = NoResp
    /\ batch = EmptyBatch
    /\ cause = None /\ exc = None
    /\ entry = NoEntry /\ fetched = << >> /\ paused = {} /\ crashed = {}

\* the worker never called, in the specifications that drive a store directly
WorkerIdle == WorkerStart /\ provider = ScenarioProvider /\ run_ids = {"r1"}

Init ==
    /\ WorkerStart
    /\ \E cf \in Configs : provider = cf.provider /\ run_ids = cf.run_ids
    /\ LabIdle

\* worker.py:113-141: run_backfill is called and its handshake transaction
\* (ensure_started) commits.  r is the run_id given, or the uuid4 generated
\* when r has no row yet.
Call(r, s, m) ==
    /\ pc \in Done
    /\ calls < MaxCalls
    /\ calls' = calls + 1
    /\ run_id' = r /\ max_pages' = m
    /\ db' = [db EXCEPT !.ledger = ensure_started(@, r, s, clock)]
    /\ clock' = IF r \in DOMAIN db.ledger THEN clock ELSE clock + 1
    /\ entry' = [fresh |-> r \notin DOMAIN db.ledger,
                 paused |-> r \in paused,
                 row |-> db'.ledger[r]]
    /\ paused' = paused \ {r}
    /\ pages_done' = 0 /\ cursor_next' = None
    /\ cursor_used' = None /\ fetched_at' = NoTime /\ resp' = NoResp
    /\ batch' = EmptyBatch
    /\ cause' = None /\ exc' = None
    /\ fetched' = << >>
    /\ pc' = "read_cursor"
    /\ UNCHANGED << tx, provider, lab, run_ids, faults, crashed >>

\* worker.py:138-141 raising: the handshake transaction fails, outside the
\* try block of run_backfill
CallFails(r, m) ==
    /\ pc \in Done
    /\ calls < MaxCalls
    /\ faults < MaxFaults
    /\ calls' = calls + 1
    /\ faults' = faults + 1
    /\ run_id' = r /\ max_pages' = m
    /\ entry' = NoEntry
    /\ pages_done' = 0 /\ cursor_next' = None
    /\ cursor_used' = None /\ fetched_at' = NoTime /\ resp' = NoResp
    /\ batch' = EmptyBatch
    /\ cause' = None /\ exc' = "handshake"
    /\ fetched' = << >>
    /\ pc' = "raised"
    /\ UNCHANGED << db, tx, provider, lab, run_ids, clock, paused, crashed >>

\* worker.py:143-145, 157
GetCursorNext ==
    /\ pc = "read_cursor"
    /\ cursor_next' = get_cursor_next(db.ledger, run_id)
    /\ pages_done' = 0
    /\ pc' = "loop"
    /\ UNCHANGED << db, tx, provider, lab, run_ids, calls, clock, faults, args, page, cause, exc, hist >>

\* worker.py:143-145 raising: outside the try block of run_backfill
ReadCursorFails ==
    /\ pc = "read_cursor"
    /\ faults < MaxFaults
    /\ faults' = faults + 1
    /\ exc' = "handshake"
    /\ pc' = "raised"
    /\ UNCHANGED << db, tx, provider, lab, run_ids, calls, clock, args, pages_done, cursor_next, page,
                    cause, hist >>

\* a page limit that is off by one
max_pages_exceeded(limit, done) == limit # NoLimit /\ done > limit

\* worker.py:161
max_pages_reached(limit, done) == limit # NoLimit /\ done >= limit

\* worker.py:161-167
LoopStop ==
    /\ pc = "loop"
    /\ max_pages_reached(max_pages, pages_done)
    /\ pc' = "returned"
    /\ paused' = IF entry.fresh /\ pages_done >= 1 THEN paused \cup {run_id} ELSE paused
    /\ UNCHANGED << db, tx, provider, lab, run_ids, calls, clock, faults, args, pages_done, cursor_next,
                    page, cause, exc, entry, fetched, crashed >>

\* the values of base_query_params: none, other filters, catalogs given or
\* empty, and a cursor key left in by the caller
NoParams == [k \in {} |-> None]
BaseParams ==
    {NoParams,
     [show_type |-> "movie"],
     [catalogs |-> "prime"],
     [catalogs |-> "", cursor |-> "c1"],
     [cursor |-> "c1"],
     [cursor |-> None]}

\* worker.py:63-77, for None and for a string
normalize_catalogs_param(catalogs) == IF catalogs = None THEN "" ELSE catalogs

\* request parameters that keep the cursor key of base_query_params when the
\* worker has no cursor
query_params_keeps_cursor(base_query_params, scope, cursor) ==
    LET q1 == [k \in DOMAIN base_query_params \cup {"country"} |->
                  IF k = "country" THEN scope.country ELSE base_query_params[k]]
        q2 == [k \in DOMAIN q1 \cup {"catalogs"} |->
                  IF k # "catalogs" THEN q1[k]
                  ELSE IF "catalogs" \notin DOMAIN q1 THEN scope.catalogs_bundle
                  ELSE IF q1["catalogs"] \in {None, ""} THEN scope.catalogs_bundle
                  ELSE normalize_catalogs_param(q1["catalogs"])]
    IN  IF cursor # None
        THEN [k \in DOMAIN q2 \cup {"cursor"} |-> IF k = "cursor" THEN cursor ELSE q2[k]]
        ELSE q2

\* worker.py:171-189: the request parameters for the current cursor
query_params(base_query_params, scope, cursor) ==
    LET q1 == [k \in DOMAIN base_query_params \cup {"country"} |->
                  IF k = "country" THEN scope.country ELSE base_query_params[k]]
        q2 == [k \in DOMAIN q1 \cup {"catalogs"} |->
                  IF k # "catalogs" THEN q1[k]
                  ELSE IF "catalogs" \notin DOMAIN q1 THEN scope.catalogs_bundle
                  ELSE IF q1["catalogs"] \in {None, ""} THEN scope.catalogs_bundle
                  ELSE normalize_catalogs_param(q1["catalogs"])]
    IN  IF cursor # None
        THEN [k \in DOMAIN q2 \cup {"cursor"} |-> IF k = "cursor" THEN cursor ELSE q2[k]]
        ELSE [k \in DOMAIN q2 \ {"cursor"} |-> q2[k]]

\* the cursor the provider reads from the request: None when it has no entry
RequestCursor(q) == IF "cursor" \in DOMAIN q THEN q["cursor"] ELSE None

\* worker.py:169-193: the request is built from the base_query_params and the
\* scope of the invocation, and sent
SendRequest ==
    /\ pc = "loop"
    /\ ~ max_pages_reached(max_pages, pages_done)
    /\ db.ledger[run_id].pages_processed < MaxPagesRun
    /\ cursor_used' = cursor_next
    /\ fetched_at' = clock
    /\ \E base \in BaseParams, s \in Scopes :
          fetched' = Append(fetched, RequestCursor(query_params(base, s, cursor_next)))
    /\ pc' = "fetch"
    /\ UNCHANGED << db, tx, provider, lab, run_ids, calls, clock, faults, args, pages_done,
                    cursor_next, resp, batch, cause, exc, entry, paused, crashed >>

\* worker.py:193-198: the response arrives
FetchOk ==
    /\ pc = "fetch"
    /\ resp' = provider[fetched[Len(fetched)]]
    /\ pc' = "tx_raw"
    /\ UNCHANGED << db, tx, provider, lab, run_ids, calls, clock, faults, args, pages_done, cursor_next,
                    cursor_used, fetched_at, batch, cause, exc, hist >>

\* worker.py:193 raising
FetchFails ==
    /\ pc = "fetch"
    /\ faults < MaxFaults
    /\ faults' = faults + 1
    /\ cause' = "fetch"
    /\ pc' = "except"
    /\ UNCHANGED << db, tx, provider, lab, run_ids, calls, clock, args, pages_done, cursor_next, page,
                    exc, hist >>

\* worker.py:203-214: the page transaction begins with the raw append
TxAppendRaw ==
    /\ pc = "tx_raw"
    /\ tx' = << [db EXCEPT !.raw = append_page(@, run_id, cursor_used, fetched_at, resp)] >>
    /\ pc' = "tx_extract"
    /\ UNCHANGED << db, provider, lab, run_ids, calls, clock, faults, args, pages_done, cursor_next, page,
                    cause, exc, hist >>

\* worker.py:216-227
TxExtract ==
    /\ pc = "tx_extract"
    /\ batch' = ExtractPage(resp.shows, fetched_at, run_id)
    /\ pc' = "tx_titles"
    /\ UNCHANGED << db, tx, provider, lab, run_ids, calls, clock, faults, args, pages_done, cursor_next,
                    cursor_used, fetched_at, resp, cause, exc, hist >>

\* a page transaction that goes on to the offers without upserting the titles
TxSkipTitles ==
    /\ pc = "tx_titles"
    /\ pc' = "tx_offers"
    /\ UNCHANGED << db, tx, provider, lab, run_ids, calls, clock, faults, args, pages_done,
                    cursor_next, page, cause, exc, hist >>

\* worker.py:229-230
TxUpsertTitles ==
    /\ pc = "tx_titles"
    /\ tx' = IF batch.titles # << >>
             THEN << [tx[1] EXCEPT !.titles = upsert_titles(@, batch.titles)] >>
             ELSE tx
    /\ pc' = "tx_offers"
    /\ UNCHANGED << db, provider, lab, run_ids, calls, clock, faults, args, pages_done, cursor_next, page,
                    cause, exc, hist >>

\* worker.py:231-232
TxUpsertOffers ==
    /\ pc = "tx_offers"
    /\ tx' = IF batch.offers # << >>
             THEN << [tx[1] EXCEPT !.offers = upsert_offers(@, batch.offers)] >>
             ELSE tx
    /\ pc' = "tx_assets"
    /\ UNCHANGED << db, provider, lab, run_ids, calls, clock, faults, args, pages_done, cursor_next, page,
                    cause, exc, hist >>

\* worker.py:233-234
TxUpsertAssets ==
    /\ pc = "tx_assets"
    /\ tx' = IF batch.assets # << >>
             THEN << [tx[1] EXCEPT !.assets = upsert_assets(@, batch.assets)] >>
             ELSE tx
    /\ pc' = "tx_checkpoint"
    /\ UNCHANGED << db, provider, lab, run_ids, calls, clock, faults, args, pages_done, cursor_next, page,
                    cause, exc, hist >>

\* worker.py:236-241
TxCheckpoint ==
    /\ pc = "tx_checkpoint"
    /\ tx' = << [tx[1] EXCEPT !.ledger =
                    checkpoint_after_page(@, run_id, resp.nextCursor, resp.hasMore,
                                          Len(resp.shows), clock)] >>
    /\ clock' = IF resp.hasMore = "False" THEN clock + 1 ELSE clock
    /\ pc' = "tx_commit"
    /\ UNCHANGED << db, provider, lab, run_ids, calls, faults, args, pages_done, cursor_next, page,
                    cause, exc, hist >>

\* a commit that goes on only when hasMore is true
TxCommitStopsUnlessMore ==
    /\ pc = "tx_commit"
    /\ db' = Commit(db, tx[1])
    /\ tx' = << >>
    /\ pages_done' = pages_done + 1
    /\ cursor_next' = resp.nextCursor
    /\ pc' = IF resp.hasMore # "True" THEN "returned" ELSE "loop"
    /\ UNCHANGED << provider, lab, run_ids, calls, clock, faults, args, page, cause, exc, hist >>

\* a commit that ends the invocation on a page without items
TxCommitStopsOnEmpty ==
    /\ pc = "tx_commit"
    /\ db' = Commit(db, tx[1])
    /\ tx' = << >>
    /\ pages_done' = pages_done + 1
    /\ cursor_next' = resp.nextCursor
    /\ pc' = IF resp.hasMore = "False" \/ resp.shows = << >> THEN "returned" ELSE "loop"
    /\ UNCHANGED << provider, lab, run_ids, calls, clock, faults, args, page, cause, exc, hist >>

\* a commit after which the loop goes on whatever hasMore says
TxCommitGoesOn ==
    /\ pc = "tx_commit"
    /\ db' = Commit(db, tx[1])
    /\ tx' = << >>
    /\ pages_done' = pages_done + 1
    /\ cursor_next' = resp.nextCursor
    /\ pc' = "loop"
    /\ UNCHANGED << provider, lab, run_ids, calls, clock, faults, args, page, cause, exc, hist >>

\* a commit whose session stays in a transaction while the loop goes on
TxCommitStaysOpen ==
    /\ pc = "tx_commit"
    /\ db' = Commit(db, tx[1])
    /\ tx' = << db' >>
    /\ pages_done' = pages_done + 1
    /\ cursor_next' = resp.nextCursor
    /\ pc' = IF resp.hasMore = "False" THEN "returned" ELSE "loop"
    /\ UNCHANGED << provider, lab, run_ids, calls, clock, faults, args, page, cause, exc, hist >>

\* worker.py:204 leaving the block (commit), then 245-266
TxCommit ==
    /\ pc = "tx_commit"
    /\ db' = Commit(db, tx[1])
    /\ tx' = << >>
    /\ pages_done' = pages_done + 1
    /\ cursor_next' = resp.nextCursor
    /\ pc' = IF resp.hasMore = "False" THEN "returned" ELSE "loop"
    /\ UNCHANGED << provider, lab, run_ids, calls, clock, faults, args, page, cause, exc, hist >>

\* worker.py:203-241 raising at any statement: the transaction rolls back
TxStepFails ==
    /\ pc \in TxPcs
    /\ faults < MaxFaults
    /\ faults' = faults + 1
    /\ db' = Rollback(db, tx)
    /\ tx' = << >>
    /\ cause' = IF pc = "tx_extract" THEN "extract" ELSE "storage"
    /\ pc' = "except"
    /\ UNCHANGED << provider, lab, run_ids, calls, clock, args, pages_done, cursor_next, page, exc, hist >>

\* worker.py:268-276: the failure is recorded and the exception re-raised
MarkFailed ==
    /\ pc = "except"
    /\ db' = [db EXCEPT !.ledger = mark_failed(@, run_id, cause, clock)]
    /\ clock' = clock + 1
    /\ exc' = cause
    /\ pc' = "raised"
    /\ UNCHANGED << tx, provider, lab, run_ids, calls, faults, args, pages_done, cursor_next, page,
                    cause, hist >>

\* worker.py:271-274 raising: the exception of the handler's own transaction
\* leaves run_backfill in place of the one being handled.  It follows a
\* counted failure, so it is not counted again.
MarkFailedFails ==
    /\ pc = "except"
    /\ exc' = "mark_failed"
    /\ pc' = "raised"
    /\ UNCHANGED << db, tx, provider, lab, run_ids, calls, clock, faults, args, pages_done,
                    cursor_next, page, cause, hist >>

\* the process is terminated: memory and the open transaction are lost
Crash ==
    /\ pc \notin Done
    /\ faults < MaxFaults
    /\ faults' = faults + 1
    /\ crashed' = IF pc \in TxPcs THEN crashed \cup {<< run_id, cursor_used >>} ELSE crashed
    /\ tx' = << >>
    /\ pc' = "idle"
    /\ pages_done' = 0 /\ cursor_next' = None
    /\ cursor_used' = None /\ fetched_at' = NoTime /\ resp' = NoResp
    /\ batch' = EmptyBatch
    /\ cause' = None /\ exc' = None
    /\ UNCHANGED << db, provider, lab, run_ids, calls, clock, args, entry, fetched, paused >>

Next ==
    \/ \E r \in run_ids, s \in Scopes, m \in MaxPagesArgs : Call(r, s, m)
    \/ \E r \in run_ids, m \in MaxPagesArgs : CallFails(r, m)
    \/ GetCursorNext
    \/ ReadCursorFails
    \/ LoopStop
    \/ SendRequest
    \/ FetchOk
    \/ FetchFails
    \/ TxAppendRaw
    \/ TxExtract
    \/ TxUpsertTitles
    \/ TxUpsertOffers
    \/ TxUpsertAssets
    \/ TxCheckpoint
    \/ TxCommit
    \/ TxStepFails
    \/ MarkFailed
    \/ MarkFailedFails
    \/ Crash

Spec == Init /\ [][Next]_vars

(***************************************************************************)
(* Properties of the worker.                                               *)
(***************************************************************************)
Row(r) == db.ledger[r]

\* the rows of run r in the raw page table
RawOf(d, r) == {i \in DOMAIN d.raw : d.raw[i].run_id = r}

\* no two rows of a table agree on the key columns
UniqueKeys(table, conflict_cols) ==
    \A i, j \in DOMAIN table :
        KeyOf(table[i], conflict_cols) = KeyOf(table[j], conflict_cols) => i = j

\* storage d holds the page that run r requested with cursor c at time at:
\* its raw row, and the index rows of the records extracted from it
PagePersisted(d, r, c, at) ==
    LET b == ExtractPage(provider[c].shows, at, r) IN
    /\ \E i \in RawOf(d, r) : d.raw[i].cursor_used = normalize_cursor_used(c)
    /\ Range(b.titles) \subseteq Range(d.titles)
    /\ Range(dedupe_offers(b.offers)) \subseteq Range(d.offers)
    /\ Range(b.assets) \subseteq Range(d.assets)

\* storage d holds index rows for every key extracted from the shows
KeysIndexed(d, shows) ==
    LET b == ExtractPage(shows, NoTime, None) IN
    /\ \A t \in Range(b.titles) :
          \E x \in Range(d.titles) : KeyOf(x, TitleCols) = KeyOf(t, TitleCols)
    /\ \A o \in Range(b.offers) :
          \E x \in Range(d.offers) : KeyOf(x, OfferCols) = KeyOf(o, OfferCols)
    /\ \A a \in Range(b.assets) :
          \E x \in Range(d.assets) : KeyOf(x, AssetCols) = KeyOf(a, AssetCols)

\* the committed checkpoint of every run is backed by committed data: a run
\* that has checkpointed no page has no cursor, and otherwise the page that
\* produced its cursor_next has its raw row and its index rows in storage
CheckpointBacked ==
    \A r \in DOMAIN db.ledger :
        IF Row(r).pages_processed = 0
        THEN Row(r).cursor_next = None /\ RawOf(db, r) = {}
        ELSE \E i \in RawOf(db, r) :
                /\ db.raw[i].next_cursor = Row(r).cursor_next
                /\ KeysIndexed(db, db.raw[i].response_json.shows)

\* a step that changes the committed cursor_next of a run is the commit of
\* a page transaction of that run: it counts the page, and the page fetched
\* with the old cursor is in storage after the step
CursorMovesWithPage ==
    \A r \in DOMAIN db.ledger :
        db'.ledger[r].cursor_next # Row(r).cursor_next =>
            /\ pc = "tx_commit" /\ r = run_id
            /\ db'.ledger[r].pages_processed = Row(r).pages_processed + 1
            /\ PagePersisted(db', r, Row(r).cursor_next, fetched_at)

\* C1: in every reachable state, with failures and crashes at any point, the
\* ledger's cursor_next of a run changes only in the commit of a page
\* transaction that also holds the page's raw row and index rows, and no
\* committed state has cursor_next advanced past a page whose raw row or
\* index rows are not committed.
C1_CursorAdvancesWithData == [] CheckpointBacked /\ [][CursorMovesWithPage]_vars

\* C1 witness: a run has checkpointed two pages, after a failure or a crash
C1_Witness ==
    /\ faults >= 1
    /\ \E r \in DOMAIN db.ledger :
          Row(r).pages_processed = 2 /\ Row(r).cursor_next # None

\* the first row of every key is unique in the four keyed tables
NoDuplicateRows ==
    /\ UniqueKeys(db.raw, << "run_id", "cursor_used" >>)
    /\ UniqueKeys(db.titles, TitleCols)
    /\ UniqueKeys(db.offers, OfferCols)
    /\ UniqueKeys(db.assets, AssetCols)

\* every request of the worker carries the committed cursor of its run
FetchesFromCommittedCursor ==
    pc = "fetch" => cursor_used = Row(run_id).cursor_next

\* a crash leaves committed storage as it was
CrashKeepsStorage == (pc \notin Done /\ pc' = "idle") => db' = db

\* C2: when the process is terminated after a page was fetched and before its
\* transaction commits, the ledger's cursor_next is unchanged, a resumed
\* run_backfill of the run requests the last committed cursor again, and the
\* repeated page leaves one index row per upsert key and one raw page per
\* (run_id, cursor).
C2_CrashSafety ==
    /\ [] NoDuplicateRows
    /\ [] FetchesFromCommittedCursor
    /\ [][CrashKeepsStorage]_vars

\* C2 witness: a page lost to a crash before its commit has been fetched
\* again by a later invocation and is committed
C2_Witness ==
    /\ pc \in {"loop", "returned"}
    /\ pages_done >= 1
    /\ \E rc \in crashed :
          /\ rc[1] = run_id
          /\ rc[2] = fetched[1]
          /\ \E i \in RawOf(db, run_id) :
                db.raw[i].cursor_used = normalize_cursor_used(rc[2])

\* inside a page transaction committed storage changes only by the commit,
\* and then to the whole working copy; a failing step leaves it as it was
PageIsAtomic ==
    pc \in TxPcs =>
        \/ db' = db
        \/ /\ pc = "tx_commit" /\ pc' \in {"loop", "returned"}
           /\ db' = tx[1]
           /\ PagePersisted(db', run_id, cursor_used, fetched_at)
           /\ db'.ledger[run_id].pages_processed = Row(run_id).pages_processed + 1

\* C3: when a step of a page's transaction fails (raw append, extraction, an
\* index upsert or the checkpoint), none of the page's writes is committed:
\* the raw table, the three index tables and the ledger are as before the
\* page; a page is committed whole or not at all.
C3_PageAtomicity == [][PageIsAtomic]_vars

\* C3 witness: a step failed after the transaction had written the raw page
\* and index rows, and storage holds none of them
C3_Witness ==
    /\ pc = "except" /\ cause = "storage"
    /\ batch.titles # << >>
    /\ RawOf(db, run_id) = {}
    /\ db.titles = << >>

\* C4: when an exception escapes the fetch/persist loop, the worker commits
\* status failed with a non-null last_error in a transaction of its own,
\* leaves cursor_next and the counters at the values of the last committed
\* page, and the exception that reaches the caller is the original one.
C4_FailureRecordedAndReraised ==
    (pc = "raised" /\ cause # None) =>
        /\ Row(run_id).status = STATUS_FAILED
        /\ Row(run_id).last_error # None
        /\ Row(run_id).cursor_next = cursor_next
        /\ Row(run_id).pages_processed = entry.row.pages_processed + pages_done
        /\ exc = cause

\* C5: whenever run_backfill raises, whichever step raised (the handshake
\* included), the run's ledger row has status failed with last_error set when
\* the exception reaches the caller.
C5_RaiseImpliesFailed ==
    pc = "raised" =>
        /\ run_id \in DOMAIN db.ledger
        /\ Row(run_id).status = STATUS_FAILED
        /\ Row(run_id).last_error # None

\* the first n cursors of the provider, starting with cursor c
RECURSIVE ChainFrom(_, _, _)
ChainFrom(p, c, n) ==
    IF n = 0 THEN << >> ELSE << c >> \o ChainFrom(p, p[c].nextCursor, n - 1)

\* the item counts of the pages of the cursors cs
ItemCounts(p, cs) == [i \in DOMAIN cs |-> Len(p[cs[i]].shows)]

\* the requests of this invocation followed the provider's cursors from c,
\* and the last page requested is the only one that reports hasMore = false
RanToLastPage(c) ==
    LET k == Len(fetched) IN
    /\ k >= 1
    /\ fetched = ChainFrom(provider, c, k)
    /\ \A i \in 1..k : (provider[fetched[i]].hasMore = "False") <=> (i = k)

\* C6: an uninterrupted run_backfill without max_pages on a fresh run_id,
\* against a provider whose page k >= 1 is the only one with hasMore = false,
\* requests the pages in cursor order from no cursor and returns with status
\* completed, pages_processed = k, items_processed = n1 + .. + nk, and
\* latest_completed_run_id of the run's scope is this run.
C6_FreshRunCompletes ==
    (pc = "returned" /\ entry.fresh /\ max_pages = NoLimit) =>
        /\ RanToLastPage(None)
        /\ Row(run_id).status = STATUS_COMPLETED
        /\ Row(run_id).pages_processed = Len(fetched)
        /\ Row(run_id).items_processed = SumSeq(ItemCounts(provider, fetched))
        /\ latest_completed_run_id(db.ledger, Row(run_id).scope) = {run_id}

\* C6 witness: the scenario of the specification (pages of 2 and 1 shows),
\* with an earlier completed run of the same scope in the ledger
C6_Witness ==
    /\ pc = "returned" /\ entry.fresh /\ max_pages = NoLimit
    /\ Row(run_id).pages_processed = 2 /\ Row(run_id).items_processed = 3
    /\ Cardinality(CompletedOfScope(db.ledger, Row(run_id).scope)) = 2

\* the invocation's first max_pages pages all report hasMore = true
FirstPagesHaveMore ==
    \A c \in Range(ChainFrom(provider, entry.row.cursor_next, max_pages)) :
        provider[c].hasMore = "True"

\* C7: with max_pages = m >= 1 and a provider whose first m pages report
\* hasMore = true, an invocation requests and commits exactly m pages and
\* returns with status running, cursor_next the nextCursor of page m and
\* pages_processed grown by m; no invocation requests more than max_pages
\* pages.
C7_MaxPagesPauses ==
    /\ max_pages # NoLimit => Len(fetched) <= max_pages
    /\ (pc = "returned" /\ max_pages # NoLimit /\ max_pages >= 1 /\ FirstPagesHaveMore) =>
          /\ Len(fetched) = max_pages /\ pages_done = max_pages
          /\ Row(run_id).status = STATUS_RUNNING
          /\ Row(run_id).cursor_next = provider[fetched[max_pages]].nextCursor
          /\ Row(run_id).pages_processed = entry.row.pages_processed + max_pages

\* C7 witness: an invocation with max_pages = 2 has stopped after two pages
C7_Witness ==
    /\ pc = "returned" /\ max_pages = 2 /\ FirstPagesHaveMore
    /\ pages_done = 2 /\ Row(run_id).status = STATUS_RUNNING

\* C8: the invocation without max_pages that follows the pause of a run at
\* max_pages requests the stored cursor_next first, continues the counters,
\* and returns with status completed and pages_processed the number of pages
\* of the provider, each page counted once over the two invocations.
C8_ResumeAfterPause ==
    (pc = "returned" /\ entry.paused /\ max_pages = NoLimit) =>
        LET total == entry.row.pages_processed + Len(fetched)
            all == ChainFrom(provider, None, total) IN
        /\ RanToLastPage(entry.row.cursor_next)
        /\ Row(run_id).status = STATUS_COMPLETED
        /\ Row(run_id).pages_processed = total
        /\ Row(run_id).items_processed = SumSeq(ItemCounts(provider, all))
        /\ \A i \in 1..total : (provider[all[i]].hasMore = "False") <=> (i = total)
        /\ Cardinality(RawOf(db, run_id)) = total
        /\ {db.raw[i].cursor_used : i \in RawOf(db, run_id)}
              = {normalize_cursor_used(c) : c \in Range(all)}

\* C8 witness: the scenario of the specification: paused after page 1 with
\* cursor "c1", resumed, completed after one more page
C8_Witness ==
    /\ pc = "returned" /\ entry.paused /\ max_pages = NoLimit
    /\ entry.row.cursor_next = "c1" /\ fetched = << "c1" >>
    /\ Row(run_id).pages_processed = 2 /\ Row(run_id).items_processed = 3

\* until its first page commits, the invocation leaves the row it found
RowKeptUntilFirstCommit ==
    (pc \in {"read_cursor", "loop", "fetch"} \cup TxPcs /\ pages_done = 0) =>
        /\ Row(run_id) = entry.row
        /\ pc \notin {"read_cursor", "loop"} => cursor_used = entry.row.cursor_next

\* the commit that follows status failed continues the counters, sets the
\* status by hasMore and clears last_error
CommitLeavesFailed ==
    \A r \in DOMAIN db.ledger :
        (Row(r).status = STATUS_FAILED /\ db'.ledger[r] # Row(r) /\ r \in DOMAIN db'.ledger) =>
            \/ /\ db'.ledger[r].status = STATUS_FAILED
               /\ db'.ledger[r].cursor_next = Row(r).cursor_next
               /\ db'.ledger[r].pages_processed = Row(r).pages_processed
               /\ db'.ledger[r].items_processed = Row(r).items_processed
            \/ /\ pc = "tx_commit"
               /\ db'.ledger[r].status =
                     IF resp.hasMore = "False" THEN STATUS_COMPLETED ELSE STATUS_RUNNING
               /\ db'.ledger[r].last_error = None
               /\ db'.ledger[r].cursor_next = resp.nextCursor
               /\ db'.ledger[r].pages_processed = Row(r).pages_processed + 1
               /\ db'.ledger[r].items_processed = Row(r).items_processed + Len(resp.shows)

\* C9: run_backfill with the run_id of a failed run resumes it: it resets
\* neither cursor_next nor the counters, its first request carries the
\* cursor_next of the last committed page, and its first committed page moves
\* the status from failed to running (completed when hasMore is false) and
\* clears last_error.
C9_FailedRunResumes == [] RowKeptUntilFirstCommit /\ [][CommitLeavesFailed]_vars

\* C9 witness: a run found failed after a committed page has committed its
\* next page and is no longer failed
C9_Witness ==
    /\ entry.row.status = STATUS_FAILED /\ entry.row.pages_processed = 1
    /\ pc \in {"loop", "returned"} /\ pages_done = 1
    /\ Row(run_id).status \in {STATUS_RUNNING, STATUS_COMPLETED}
    /\ Row(run_id).last_error = None
    /\ Row(run_id).pages_processed = 2

\* a step that counts a page of a run completes the run exactly when the
\* page reports hasMore = false, stamps ended_at then, and commits the
\* page's data with it; the worker completes a run in no other step
CompletesWithLastPage ==
    \A r \in DOMAIN db.ledger :
        /\ db'.ledger[r].pages_processed # Row(r).pages_processed =>
              /\ pc = "tx_commit"
              /\ (resp.hasMore = "False") <=> (db'.ledger[r].status = STATUS_COMPLETED)
              /\ (resp.hasMore = "False") <=> (db'.ledger[r].ended_at # NoTime)
              /\ PagePersisted(db', r, cursor_used, fetched_at)
        /\ (db'.ledger[r].status = STATUS_COMPLETED /\ db'.ledger[r] # Row(r)) =>
              db'.ledger[r].pages_processed = Row(r).pages_processed + 1

\* C10: when a fetched page reports hasMore = false, status completed and
\* ended_at are committed in the transaction of that page's checkpoint, raw
\* append and index upserts: no committed state has the last page
\* checkpointed and the run not completed, or the run completed by the
\* worker and the last page's data not committed.
C10_CompletionInPageTransaction == [][CompletesWithLastPage]_vars

\* C10 witness: a run is completed and the raw row of its last page is there
C10_Witness ==
    /\ pc = "returned" /\ pages_done = 2
    /\ Row(run_id).status = STATUS_COMPLETED /\ Row(run_id).ended_at # NoTime
    /\ \E i \in RawOf(db, run_id) :
          db.raw[i].has_more = "False" /\ db.raw[i].cursor_used = "c1"

(***************************************************************************)
(* The raw page store driven directly: two sessions append pages and       *)
(* commit or roll back, interleaved.  The unique constraint of             *)
(* tables.py:93-96 makes an insert wait for an open transaction that       *)
(* holds a row of the same key, so append_page runs when no other session  *)
(* has such a row pending.                                                 *)
(***************************************************************************)
\* append_page calls of one behaviour
MaxAppends == 3

Sessions == {"a", "b"}
RawPayloads == {ScenarioProvider[None], ScenarioProvider["c1"]}
\* the pages appended: two pages of one run and the first page of another
RawCalls == {<< "r1", None >>, << "r1", "c1" >>, << "r2", None >>}

RawInit ==
    /\ WorkerIdle
    /\ raw_table = << >>
    /\ pending = [s \in Sessions |-> << >>]
    /\ appended = << >>
    /\ records = << >> /\ kept = << >>
    /\ dialect = "sqlite" /\ index = EmptyIndex /\ upserts = << >>
    /\ LedgerIdle /\ ClientIdle

\* the rows a session sees: the committed ones and its own
Visible(s) == raw_table \o pending[s]

HoldsKey(rows, r, c) ==
    \E i \in DOMAIN rows : RawKey(rows[i]) = << r, normalize_cursor_used(c) >>

\* raw.py:69-155: append_page(run_id = r, cursor_used = c, response_json =
\* payload) in session s, at the next tick of the clock
AppendPage(s, r, c, payload) ==
    /\ Len(appended) < MaxAppends
    /\ \A t \in Sessions \ {s} : ~ HoldsKey(pending[t], r, c)
    /\ LET at == Len(appended) + 1
           after == append_page(Visible(s), r, c, at, payload)
       IN  /\ pending' = [pending EXCEPT
                            ![s] = SubSeq(after, Len(raw_table) + 1, Len(after))]
           /\ appended' = Append(appended,
                             [session |-> s, run_id |-> r, cursor_used |-> c,
                              fetched_at |-> at, response_json |-> payload,
                              inserted |-> append_inserted(Visible(s), r, c),
                              state |-> "open"])
    /\ UNCHANGED << worker, ledger_lab, client_lab, raw_table, records, kept, dialect, index, upserts >>

\* the calls of session s that its transaction still holds become st
Close(s, st) ==
    [i \in DOMAIN appended |->
        IF appended[i].session = s /\ appended[i].state = "open"
        THEN [appended[i] EXCEPT !.state = st] ELSE appended[i]]

IsOpen(s) == \E i \in DOMAIN appended : appended[i].session = s /\ appended[i].state = "open"

\* session.begin() leaves its block: the transaction of s commits
SessionCommit(s) ==
    /\ IsOpen(s)
    /\ raw_table' = raw_table \o pending[s]
    /\ pending' = [pending EXCEPT ![s] = << >>]
    /\ appended' = Close(s, "committed")
    /\ UNCHANGED << worker, ledger_lab, client_lab, records, kept, dialect, index, upserts >>

\* engine.py:14-24: the transaction of s rolls back
SessionRollback(s) ==
    /\ IsOpen(s)
    /\ pending' = [pending EXCEPT ![s] = << >>]
    /\ appended' = Close(s, "rolled_back")
    /\ UNCHANGED << worker, ledger_lab, client_lab, raw_table, records, kept, dialect, index, upserts >>

RawNext ==
    \/ \E s \in Sessions, rc \in RawCalls, payload \in RawPayloads :
          AppendPage(s, rc[1], rc[2], payload)
    \/ \E s \in Sessions : SessionCommit(s)
    \/ \E s \in Sessions : SessionRollback(s)

RawSpec == RawInit /\ [][RawNext]_vars

\* every row of the table, committed or not
AllRaw == raw_table \o pending["a"] \o pending["b"]

\* the calls whose transaction was not rolled back
Live(i) == appended[i].state # "rolled_back"

CallKey(i) == << appended[i].run_id, normalize_cursor_used(appended[i].cursor_used) >>

\* the row that call i would store
CallRow(i) ==
    RawRow(appended[i].run_id, appended[i].cursor_used, appended[i].fetched_at,
           appended[i].response_json)

\* C14: append_page is idempotent per (run_id, normalized cursor_used): the
\* first call of a key returns true, every later call of the key returns
\* false, exactly one row of the key is stored and it keeps every field of
\* the first call, whatever payload the later calls carry; a call with a
\* payload already stored under another key is inserted.
C14_AppendIdempotent ==
    \A j \in DOMAIN appended :
        Live(j) =>
            LET earlier == {i \in 1..(j - 1) : Live(i) /\ CallKey(i) = CallKey(j)}
                first == CHOOSE i \in earlier \cup {j} :
                            \A k \in earlier \cup {j} : i <= k
            IN  /\ appended[j].inserted <=> earlier = {}
                /\ Cardinality({n \in DOMAIN AllRaw : RawKey(AllRaw[n]) = CallKey(j)}) = 1
                /\ \E n \in DOMAIN AllRaw : AllRaw[n] = CallRow(first)

\* C14 witness: a second call of a key with another payload was refused,
\* and the first payload went in under another key too
C14_Witness ==
    \E i, j, k \in DOMAIN appended :
        /\ i < j /\ j < k /\ Live(i) /\ Live(j) /\ Live(k)
        /\ CallKey(i) = CallKey(j)
        /\ appended[i].response_json # appended[j].response_json
        /\ appended[i].inserted /\ ~ appended[j].inserted
        /\ CallKey(k) # CallKey(i)
        /\ appended[k].response_json = appended[i].response_json
        /\ appended[k].inserted

\* C15: under interleaved append_page calls of two sessions the raw page
\* table holds at most one row per (run_id, cursor_used); cursor_used is
\* never null: an absent cursor is stored as "", so two first-page appends
\* of one run conflict.
C15_RawKeyUnique ==
    /\ \A m, n \in DOMAIN AllRaw : RawKey(AllRaw[m]) = RawKey(AllRaw[n]) => m = n
    /\ \A n \in DOMAIN AllRaw : AllRaw[n].cursor_used # None
    /\ \A i \in DOMAIN appended :
          (Live(i) /\ appended[i].cursor_used = None) =>
              \E n \in DOMAIN AllRaw :
                  /\ AllRaw[n].run_id = appended[i].run_id
                  /\ AllRaw[n].cursor_used = ""
    /\ \A i, j \in DOMAIN appended :
          (/\ i < j /\ Live(i) /\ Live(j)
           /\ appended[i].run_id = appended[j].run_id
           /\ appended[i].cursor_used = None /\ appended[j].cursor_used = None)
              => ~ appended[j].inserted

\* C15 witness: two sessions appended the first page of one run, the second
\* after the first committed, and only the first was inserted
C15_Witness ==
    \E i, j \in DOMAIN appended :
        /\ i < j
        /\ appended[i].session # appended[j].session
        /\ appended[i].run_id = appended[j].run_id
        /\ appended[i].cursor_used = None /\ appended[j].cursor_used = None
        /\ appended[i].state = "committed"
        /\ appended[i].inserted /\ ~ appended[j].inserted
        /\ Cardinality({n \in DOMAIN AllRaw : RawKey(AllRaw[n]) = CallKey(i)}) = 1

(***************************************************************************)
(* upsert_offers' deduplication driven directly: the loop of               *)
(* _dedupe_offers takes the records of a batch one by one.                 *)
(***************************************************************************)
\* records of one batch
MaxBatch == 3

OfferQualities == {"uhd", "hd", "sd", None}
OfferLinks == {None, "w1", "w2"}
OfferSinces == {10, 20}

\* an offer record of show s1 in country de, fetched at 1 in run r1
Offer(service, type, quality, link, since) ==
    [sapi_id |-> "s1", country |-> "de", service_id |-> service, offer_type |-> type,
     watch_link |-> link, quality |-> quality, available_since |-> since,
     fetched_at |-> 1, last_seen_run_id |-> "r1"]

\* the records a batch is made of: every quality, link and available_since
\* under one upsert key, and one record of another key
OfferRecords ==
    {Offer("netflix", "subscription", q, w, a) :
        q \in OfferQualities, w \in OfferLinks, a \in OfferSinces}
    \cup {Offer("prime", "rent", "hd", None, 10)}

DedupeInit ==
    /\ WorkerIdle
    /\ records = << >> /\ kept = << >>
    /\ raw_table = << >> /\ pending = << >> /\ appended = << >>
    /\ dialect = "sqlite" /\ index = EmptyIndex /\ upserts = << >>
    /\ LedgerIdle /\ ClientIdle

\* indices.py:126-145: the loop takes the next record r of the batch
DedupeRecord(r) ==
    /\ Len(records) < MaxBatch
    /\ records' = Append(records, r)
    /\ kept' = DedupeStep(kept, r)
    /\ UNCHANGED << worker, ledger_lab, client_lab, raw_table, pending, appended, dialect, index, upserts >>

DedupeNext == \E r \in OfferRecords : DedupeRecord(r)

DedupeSpec == DedupeInit /\ [][DedupeNext]_vars

\* the records that upsert_offers hands to the storage upsert for the batch
Deduped == dedupe_offers(records)

\* the record kept for the key of record r
KeptFor(r) == CHOOSE k \in Range(Deduped) : OfferKey(k) = OfferKey(r)

\* C16: of two offers with the same upsert key, one hd without watch_link
\* and one sd with a watch_link, upsert_offers keeps the hd one, in
\* whichever order the two appear in the batch.
C16_QualityOutranksLink ==
    \A i, j \in DOMAIN records :
        (/\ Len(records) = 2 /\ OfferKey(records[i]) = OfferKey(records[j])
         /\ records[i].quality = "hd" /\ records[i].watch_link = None
         /\ records[j].quality = "sd" /\ records[j].watch_link # None)
            => KeptFor(records[i]) = records[i]

\* the three rules as a lexicographic order: quality rank, then presence of
\* a watch_link, then available_since
LinkRank(r) == IF r.watch_link # None THEN 1 ELSE 0

LexLeq(a, b) ==
    \/ quality_rank(a.quality) < quality_rank(b.quality)
    \/ /\ quality_rank(a.quality) = quality_rank(b.quality)
       /\ \/ LinkRank(a) < LinkRank(b)
          \/ LinkRank(a) = LinkRank(b) /\ a.available_since <= b.available_since

\* C17: for every batch and every upsert key in it, the record kept is a
\* maximum of the records of that key under the lexicographic order
\* (quality rank, watch_link presence, available_since).
C17_KeptIsLexMaximum ==
    \A i \in DOMAIN records : LexLeq(records[i], KeptFor(records[i]))

\* C18: when two offers of a batch share an upsert key and none of the
\* three rules distinguishes them, the later one in input order is kept.
C18_LastWriteWins ==
    (/\ Len(records) = 2 /\ OfferKey(records[1]) = OfferKey(records[2])
     /\ LexLeq(records[1], records[2]) /\ LexLeq(records[2], records[1]))
        => KeptFor(records[2]) = records[2]

\* C19: the rows upsert_offers hands to the storage upsert hold exactly one
\* row per distinct upsert key of the input, and each is an input record of
\* that key.
C19_OneRowPerKey ==
    /\ kept = Deduped
    /\ {OfferKey(kept[n]) : n \in DOMAIN kept}
          = {OfferKey(records[i]) : i \in DOMAIN records}
    /\ \A m, n \in DOMAIN kept : OfferKey(kept[m]) = OfferKey(kept[n]) => m = n
    /\ \A n \in DOMAIN kept : \E i \in DOMAIN records : kept[n] = records[i]

\* C19 witness: a batch of three records under two keys leaves two rows
C19_Witness ==
    /\ Len(records) = 3 /\ Len(kept) = 2 /\ kept = Deduped
    /\ Cardinality(Range(records)) = 3
    /\ Cardinality({OfferKey(records[i]) : i \in DOMAIN records}) = 2

(***************************************************************************)
(* The index upsert store driven directly: upsert statements of several    *)
(* runs on the three tables.  A batch is what extract_show yields for a    *)
(* list of shows; the chunk size (1000) is above every batch, so a batch   *)
(* is one statement.                                                       *)
(***************************************************************************)
\* upsert statements of one behaviour
MaxUpserts == 3

Dialects == {"postgresql", "sqlite"}
IndexTables == {"titles", "offers", "assets"}
IndexShowLists == { << "s1" >>, << "s1", "s2" >>, << "s1", "s1" >> }

ColsOf(t) ==
    CASE t = "titles" -> TitleCols
      [] t = "offers" -> OfferCols
      [] t = "assets" -> AssetCols

\* indices.py:103-167: the rows the store hands to _bulk_upsert for table t
RowsFor(t, recs) == IF t = "offers" THEN dedupe_offers(recs) ELSE recs

\* indices.py:284-301 on PostgreSQL: one INSERT .. ON CONFLICT DO UPDATE
\* statement cannot affect a row twice, so it raises when two of its rows
\* have the same key; SQLite applies the rows in order
upsert_raises(rows, conflict_cols, d) ==
    /\ d = "postgresql"
    /\ \E i, j \in DOMAIN rows :
          i # j /\ KeyOf(rows[i], conflict_cols) = KeyOf(rows[j], conflict_cols)

\* indices.py:103-167: the table t after the store's upsert of recs
upsert_table(t, table, recs) ==
    CASE t = "titles" -> upsert_titles(table, recs)
      [] t = "offers" -> upsert_offers(table, recs)
      [] t = "assets" -> upsert_assets(table, recs)

IndexInit ==
    /\ WorkerIdle
    /\ dialect \in Dialects
    /\ index = EmptyIndex /\ upserts = << >>
    /\ LedgerIdle /\ ClientIdle
    /\ raw_table = << >> /\ pending = << >> /\ appended = << >>
    /\ records = << >> /\ kept = << >>

\* upsert_titles / upsert_offers / upsert_assets of run r with the records
\* extracted from shows, at the next tick of the clock
Upsert(t, r, shows) ==
    LET recs == ExtractPage(shows, Len(upserts) + 1, r)[t]
        rows == RowsFor(t, recs)
    IN  /\ Len(upserts) < MaxUpserts
        /\ ~ upsert_raises(rows, ColsOf(t), dialect)
        /\ index' = [index EXCEPT ![t] = upsert_table(t, @, recs)]
        /\ upserts' = Append(upserts,
                         [table |-> t, run_id |-> r,
                          keys |-> {KeyOf(rows[i], ColsOf(t)) : i \in DOMAIN rows}])
        /\ UNCHANGED << worker, ledger_lab, client_lab, raw_table, pending, appended, records, kept, dialect >>

\* indices.py:316-328: the statement raises and the transaction is rolled
\* back; nothing is upserted
UpsertRaises(t, r, shows) ==
    LET recs == ExtractPage(shows, Len(upserts) + 1, r)[t]
    IN  /\ Len(upserts) < MaxUpserts
        /\ upsert_raises(RowsFor(t, recs), ColsOf(t), dialect)
        /\ upserts' = Append(upserts, [table |-> t, run_id |-> r, keys |-> {}])
        /\ UNCHANGED << worker, ledger_lab, client_lab, raw_table, pending, appended, records, kept, dialect, index >>

IndexNext ==
    \/ \E t \in IndexTables, r \in RunIds, shows \in IndexShowLists : Upsert(t, r, shows)
    \/ \E t \in IndexTables, r \in RunIds, shows \in IndexShowLists : UpsertRaises(t, r, shows)

IndexSpec == IndexInit /\ [][IndexNext]_vars

\* the upserts of table t that carried key k, in order
UpsertsOf(t, k) == {i \in DOMAIN upserts : upserts[i].table = t /\ k \in upserts[i].keys}

\* the keys ever upserted into table t
KeysUpserted(t) == UNION {upserts[i].keys : i \in {j \in DOMAIN upserts : upserts[j].table = t}}

\* the run of the latest upsert of key k into table t
LatestRun(t, k) ==
    upserts[CHOOSE i \in UpsertsOf(t, k) : \A j \in UpsertsOf(t, k) : j <= i].run_id

\* C20: upsert convergence: however often and in whichever runs a key is
\* upserted, its index holds exactly one row of the key, whose
\* last_seen_run_id is the one of the latest upsert; the number of rows of
\* an index is the number of distinct keys ever upserted into it.
C20_UpsertConvergence ==
    \A t \in IndexTables :
        /\ \A m, n \in DOMAIN index[t] :
              KeyOf(index[t][m], ColsOf(t)) = KeyOf(index[t][n], ColsOf(t)) => m = n
        /\ {KeyOf(index[t][n], ColsOf(t)) : n \in DOMAIN index[t]} = KeysUpserted(t)
        /\ Len(index[t]) = Cardinality(KeysUpserted(t))
        /\ \A n \in DOMAIN index[t] :
              index[t][n].last_seen_run_id = LatestRun(t, KeyOf(index[t][n], ColsOf(t)))

\* C20 witness: title s1 was upserted three times, by run r1 and then by
\* run r2, and the title index holds it once, last seen in r2
C20_Witness ==
    /\ Cardinality(UpsertsOf("titles", << "s1" >>)) = 3
    /\ upserts[1].run_id = "r1" /\ upserts[3].run_id = "r2"
    /\ Len(index.titles) = 1
    /\ index.titles[1].last_seen_run_id = "r2"

\* a completed row keeps its status, ended_at, cursor_next and counters,
\* and no request is sent for its run
CompletedRowKept ==
    \A r \in DOMAIN db.ledger :
        Row(r).status = STATUS_COMPLETED =>
            /\ db'.ledger[r].status = STATUS_COMPLETED
            /\ db'.ledger[r].ended_at = Row(r).ended_at
            /\ db'.ledger[r].cursor_next = Row(r).cursor_next
            /\ db'.ledger[r].pages_processed = Row(r).pages_processed
            /\ db'.ledger[r].items_processed = Row(r).items_processed
            /\ ~ (run_id = r /\ pc = "loop" /\ pc' = "fetch")

\* C11: completed is terminal: once a run's status is completed, no later
\* invocation of run_backfill with that run_id changes the row's status,
\* ended_at, cursor_next, pages_processed or items_processed, and no page
\* is fetched for that run again.
C11_CompletedIsTerminal == [][CompletedRowKept]_vars

\* the edges of the ledger's state machine
StatusEdges ==
    { << STATUS_STARTED, STATUS_RUNNING >>,
      << STATUS_RUNNING, STATUS_COMPLETED >>,
      << STATUS_RUNNING, STATUS_FAILED >>,
      << STATUS_FAILED, STATUS_RUNNING >> }

\* a new row is started, and a row changes its status along an edge
StatusFollowsEdges ==
    \A r \in DOMAIN db'.ledger :
        IF r \in DOMAIN db.ledger
        THEN \/ db'.ledger[r].status = Row(r).status
             \/ << Row(r).status, db'.ledger[r].status >> \in StatusEdges
        ELSE db'.ledger[r].status = STATUS_STARTED

\* C12: every change of a run's status made by run_backfill follows an edge
\* of started -> running -> {completed | failed}, plus failed -> running on
\* resume: a run is created in started, never moves from started directly to
\* completed or failed, and never leaves completed.
C12_StatusStateMachine == [][StatusFollowsEdges]_vars

\* C13: a run is running before its first page fetch: in every state in
\* which run_backfill has a provider fetch in flight for a run, the run's
\* committed status is running (not started and not failed).
C13_RunningBeforeFetch ==
    pc = "fetch" => Row(run_id).status = STATUS_RUNNING

\* the record of a batch that the upsert of table t leaves stored for the
\* key of rows[i]: the last row of that key in the statement
IsKept(rows, i, conflict_cols) ==
    \A j \in DOMAIN rows :
        KeyOf(rows[j], conflict_cols) = KeyOf(rows[i], conflict_cols) => j <= i

\* the commit of a page of run_id leaves, for every key extracted from the
\* page, the record kept for the key as the stored row, last seen in run_id
PageOverwritesRows ==
    (pc = "tx_commit" /\ pages_done' = pages_done + 1) =>
        \A t \in IndexTables :
            LET rows == RowsFor(t, batch[t]) IN
            \A i \in DOMAIN rows :
                IsKept(rows, i, ColsOf(t)) =>
                    /\ rows[i].last_seen_run_id = run_id
                    /\ \A n \in DOMAIN db'[t] :
                          KeyOf(db'[t][n], ColsOf(t)) = KeyOf(rows[i], ColsOf(t))
                              => db'[t][n] = rows[i]
                    /\ \E n \in DOMAIN db'[t] : db'[t][n] = rows[i]

\* C21: on key conflict an upsert overwrites every non-key column with the
\* incoming value, last_seen_run_id included: after a page of run R commits,
\* every title, offer and asset row whose key was extracted from the page
\* has last_seen_run_id = R and the values of the record kept for the key,
\* whatever run wrote the row before.
C21_UpsertOverwrites == [][PageOverwritesRows]_vars

\* C21 witness: run r2 committed a page over the rows that run r1 wrote, and
\* the title, offer and asset rows of show s1 are last seen in r2
C21_Witness ==
    /\ run_id = "r2" /\ pc = "loop" /\ pages_done = 1
    /\ \E i \in RawOf(db, "r1") : db.raw[i].cursor_used = ""
    /\ \A t \in IndexTables :
          \E n \in DOMAIN db[t] :
              db[t][n].sapi_id = "s1" /\ db[t][n].last_seen_run_id = "r2"

\* C22: upsert_titles, upsert_offers and upsert_assets return the count
\* attempted, the number of records of the input batch; for upsert_offers
\* the count returned equals the length of the input batch for every
\* batch, batches in which several offers share an upsert key included.
C22_ReturnsCountAttempted ==
    /\ upsert_offers_total(records) = Len(records)
    /\ upsert_titles_total(records) = Len(records)
    /\ upsert_assets_total(records) = Len(records)

(***************************************************************************)
(* The run ledger driven directly: any sequence of up to MaxOps operations *)
(* of SapiRunLedgerStore on two runs, each committed as it returns.        *)
(***************************************************************************)
MaxOps == 4

\* two scopes that differ in the fingerprint only, and one of another country
LedgerScopes ==
    {Scope("de", "netflix,prime", "f1"), Scope("de", "netflix,prime", "f2")}

\* the pages checkpointed: next_cursor, has_more and items_count
LedgerPages ==
    {[next_cursor |-> "c1", has_more |-> "True", items_count |-> 2],
     [next_cursor |-> None, has_more |-> "False", items_count |-> 1],
     [next_cursor |-> None, has_more |-> None, items_count |-> 0]}

\* the ended_at argument of mark_failed and mark_completed: None or a datetime
EndedAtArgs == {NoTime, 1}

LedgerInit ==
    /\ WorkerIdle
    /\ runs = << >> /\ op = NoOp /\ callers = << >>
    /\ ClientIdle
    /\ raw_table = << >> /\ pending = << >> /\ appended = << >>
    /\ records = << >> /\ kept = << >>
    /\ dialect = "sqlite" /\ index = EmptyIndex /\ upserts = << >>

\* ledger.py:72-80: _utcnow_naive() reads a clock that advances between calls
Readings == {op.now + 1}

\* the operation is recorded with the row of its run before it and with its
\* result; again tells that it repeats the operation before it on the same
\* run.  n counts the operations that write (k = 1), not the queries (k = 0)
Operation(name, r, s, p, result, now, k) ==
    /\ op.n + k <= MaxOps
    /\ op' = [n |-> op.n + k, name |-> name, run_id |-> r, scope |-> s, page |-> p,
              before |-> IF r \in DOMAIN runs THEN runs[r] ELSE NoRow,
              result |-> result, again |-> (op.name = name /\ op.run_id = r),
              now |-> now]
    /\ UNCHANGED << worker, callers, client_lab, raw_table, pending, appended, records, kept,
                    dialect, index, upserts >>

\* ledger.py:121-169: returns the row of r
LedgerEnsureStarted(r, s) ==
    \E now \in Readings :
        /\ runs' = ensure_started(runs, r, s, now)
        /\ Operation("ensure_started", r, s, None, runs'[r], now, 1)

\* ledger.py:186-197
LedgerSetRunning(r) ==
    /\ runs' = set_running(runs, r)
    /\ Operation("set_running", r, None, None, None, op.now, 1)

\* ledger.py:199-240
LedgerCheckpoint(r, p) ==
    \E now \in Readings :
        /\ runs' = checkpoint_after_page(runs, r, p.next_cursor, p.has_more,
                                         p.items_count, now)
        /\ Operation("checkpoint_after_page", r, None, p, None, now, 1)

\* ledger.py:254-271: ended_at or _utcnow_naive()
LedgerMarkFailed(r, e, ended_at) ==
    \E now \in Readings :
        /\ runs' = mark_failed(runs, r, e, IF ended_at = NoTime THEN now ELSE ended_at)
        /\ Operation("mark_failed", r, None, None, None, now, 1)

\* ledger.py:273-287: ended_at or _utcnow_naive()
LedgerMarkCompleted(r, ended_at) ==
    \E now \in Readings :
        /\ runs' = mark_completed(runs, r, IF ended_at = NoTime THEN now ELSE ended_at)
        /\ Operation("mark_completed", r, None, None, None, now, 1)

\* ledger.py:293-309: returns one of the rows first in the order
LedgerLatestCompleted(s) ==
    \E x \in latest_completed_run_id(runs, s) :
        /\ runs' = runs
        /\ Operation("latest_completed_run_id", None, s, None, x, op.now, 0)

LedgerNext ==
    \/ \E r \in RunIds, s \in LedgerScopes : LedgerEnsureStarted(r, s)
    \/ \E r \in RunIds : LedgerSetRunning(r)
    \/ \E r \in RunIds, p \in LedgerPages : LedgerCheckpoint(r, p)
    \/ \E r \in RunIds, e \in {"RuntimeError: boom"}, t \in EndedAtArgs : LedgerMarkFailed(r, e, t)
    \/ \E r \in RunIds, t \in EndedAtArgs : LedgerMarkCompleted(r, t)
    \/ \E s \in LedgerScopes : LedgerLatestCompleted(s)

LedgerSpec == LedgerInit /\ [][LedgerNext]_vars


\* the step is operation name of the ledger store
Did(name) == op'.n = op.n + 1 /\ op'.name = name

\* the rows of the runs other than r are as they were
OthersKept(r) ==
    /\ DOMAIN runs' \ {r} = DOMAIN runs \ {r}
    /\ \A x \in DOMAIN runs \ {r} : runs'[x] = runs[x]

EnsureStartedCreatesOnce ==
    Did("ensure_started") =>
        LET r == op'.run_id IN
        /\ OthersKept(r)
        /\ r \in DOMAIN runs'
        /\ op'.result = runs'[r]
        /\ r \in DOMAIN runs => runs'[r] = runs[r]
        /\ r \notin DOMAIN runs =>
              runs'[r] = [run_id |-> r, scope |-> op'.scope, status |-> STATUS_STARTED,
                          started_at |-> op'.now, ended_at |-> NoTime,
                          last_error |-> None, cursor_next |-> None,
                          pages_processed |-> 0, items_processed |-> 0]
        /\ \A x \in DOMAIN runs' : runs'[x].run_id = x

\* C23: ensure_started is an idempotent creation: for an unknown run_id it
\* inserts one row with status started, cursor_next null, both counters 0,
\* ended_at and last_error null and the scope given; for a known run_id it
\* returns the existing row and changes none of its fields, also when the
\* scope passed differs from the stored one; no run_id has two rows.
C23_EnsureStartedIdempotent == [][EnsureStartedCreatesOnce]_vars

\* C23 witness: ensure_started on a run that has checkpointed a page, with
\* another scope than the stored one, returned the row as it was
C23_Witness ==
    /\ op.name = "ensure_started"
    /\ op.before # NoRow
    /\ op.before.pages_processed > 0
    /\ op.before.scope # op.scope
    /\ op.result = op.before

CheckpointAdvances ==
    Did("checkpoint_after_page") =>
        LET r == op'.run_id
            p == op'.page
        IN  /\ OthersKept(r)
            /\ DOMAIN runs' = DOMAIN runs
            /\ r \in DOMAIN runs =>
                  /\ runs'[r].cursor_next = p.next_cursor
                  /\ runs'[r].pages_processed = runs[r].pages_processed + 1
                  /\ runs'[r].items_processed = runs[r].items_processed + p.items_count
                  /\ runs'[r].last_error = None
                  /\ p.has_more = "False" =>
                        /\ runs'[r].status = STATUS_COMPLETED
                        /\ runs'[r].ended_at = op'.now /\ runs'[r].ended_at # NoTime
                  /\ p.has_more # "False" =>
                        /\ runs'[r].status = STATUS_RUNNING
                        /\ runs'[r].ended_at = NoTime
                  /\ runs'[r].run_id = r
                  /\ runs'[r].scope = runs[r].scope
                  /\ runs'[r].started_at = runs[r].started_at

\* C25: checkpoint_after_page on an existing run sets cursor_next to
\* next_cursor, adds exactly 1 to pages_processed and exactly items_count to
\* items_processed, clears last_error, and sets the status to completed with
\* ended_at stamped when has_more is false, otherwise to running with
\* ended_at null; it changes no other run's row.
C25_CheckpointAfterPage == [][CheckpointAdvances]_vars

\* C25 witness: a failed run checkpointed its last page, of one item, while
\* the other run has a row
C25_Witness ==
    /\ op.name = "checkpoint_after_page"
    /\ op.page.has_more = "False"
    /\ op.before # NoRow
    /\ op.before.status = STATUS_FAILED /\ op.before.last_error # None
    /\ runs[op.run_id].status = STATUS_COMPLETED
    /\ runs[op.run_id].last_error = None
    /\ runs[op.run_id].pages_processed = 1
    /\ runs[op.run_id].items_processed = 1
    /\ DOMAIN runs = RunIds

CountersKept(r) ==
    /\ runs'[r].pages_processed = runs[r].pages_processed
    /\ runs'[r].items_processed = runs[r].items_processed
    /\ runs'[r].cursor_next = runs[r].cursor_next

CountersGrow ==
    \A r \in DOMAIN runs :
        /\ r \in DOMAIN runs'
        /\ runs'[r].pages_processed >= runs[r].pages_processed
        /\ runs'[r].items_processed >= runs[r].items_processed
        /\ (~ Did("checkpoint_after_page") \/ op'.run_id # r) => CountersKept(r)

\* C26: pages_processed and items_processed of a run never decrease over
\* any sequence of ledger operations; they change only in
\* checkpoint_after_page, and set_running, mark_failed, mark_completed and
\* ensure_started on an existing row leave them and cursor_next unchanged.
C26_CountersMonotone == [][CountersGrow]_vars

\* C26 witness: mark_completed on a run that stopped after one page of two
\* items with cursor "c1" left the counters and the cursor in place
C26_Witness ==
    /\ op.name = "mark_completed"
    /\ op.before # NoRow
    /\ runs[op.run_id].status = STATUS_COMPLETED
    /\ runs[op.run_id].pages_processed = 1
    /\ runs[op.run_id].items_processed = 2
    /\ runs[op.run_id].cursor_next = "c1"

\* the same over run_backfill: the committed counters of a run never
\* decrease over invocations, failures, crashes and resumes, and move only
\* with the commit of a page
WorkerCountersGrow ==
    \A r \in DOMAIN db.ledger :
        /\ r \in DOMAIN db'.ledger
        /\ db'.ledger[r].pages_processed >= db.ledger[r].pages_processed
        /\ db'.ledger[r].items_processed >= db.ledger[r].items_processed
        /\ (pc # "tx_commit" \/ run_id # r) =>
              /\ db'.ledger[r].pages_processed = db.ledger[r].pages_processed
              /\ db'.ledger[r].items_processed = db.ledger[r].items_processed
              /\ db'.ledger[r].cursor_next = db.ledger[r].cursor_next

WorkerCountersMonotone == [][WorkerCountersGrow]_vars

\* C27: in every state reachable by ledger operations, ended_at is null
\* exactly when the run is active (status started or running) and non-null
\* exactly when the status is terminal (completed or failed).
C27_EndedAtIffTerminal ==
    \A r \in DOMAIN runs :
        (runs[r].ended_at = NoTime) <=> (runs[r].status \in {STATUS_STARTED, STATUS_RUNNING})

LastErrorFollowsStatus ==
    \A r \in DOMAIN runs' :
        LET was == IF r \in DOMAIN runs THEN runs[r].last_error ELSE None IN
        /\ (runs'[r].last_error # None) <=> (runs'[r].status = STATUS_FAILED)
        /\ (runs'[r].last_error # None /\ runs'[r].last_error # was)
              => (Did("mark_failed") /\ op'.run_id = r)
        /\ ( /\ op'.run_id = r
             /\ r \in DOMAIN runs
             /\ \/ Did("set_running") \/ Did("checkpoint_after_page") \/ Did("mark_completed") )
              => runs'[r].last_error = None

\* C28: in every state reachable by ledger operations, last_error is
\* non-null only when the status is failed and every failed row has a
\* non-null last_error: set_running, checkpoint_after_page and
\* mark_completed clear it and only mark_failed sets it.
C28_LastErrorIffFailed == [][LastErrorFollowsStatus]_vars

\* C28 witness: set_running on a failed run cleared the error it carried
C28_Witness ==
    /\ op.name = "set_running"
    /\ op.before.status = STATUS_FAILED
    /\ op.before.last_error # None
    /\ runs[op.run_id].status = STATUS_RUNNING
    /\ runs[op.run_id].last_error = None

SetRunningIdempotent ==
    Did("set_running") =>
        LET r == op'.run_id IN
        /\ OthersKept(r)
        /\ DOMAIN runs' = DOMAIN runs
        /\ set_running(runs', r) = runs'
        /\ op'.again => runs' = runs
        /\ r \in DOMAIN runs =>
              /\ runs'[r].status = STATUS_RUNNING
              /\ runs'[r].last_error = None
              /\ CountersKept(r)
              /\ runs'[r].scope = runs[r].scope

\* C29: set_running is an idempotent state transition: after one call the
\* status is running and last_error is null, a second call leaves the row
\* exactly as the first did, and it never changes cursor_next,
\* pages_processed, items_processed or the scope.
C29_SetRunningIdempotent == [][SetRunningIdempotent]_vars

\* C29 witness: set_running was called twice in a row on a run that had
\* checkpointed a page with cursor "c1"
C29_Witness ==
    /\ op.name = "set_running" /\ op.again
    /\ op.before # NoRow
    /\ op.before = runs[op.run_id]
    /\ runs[op.run_id].cursor_next = "c1"
    /\ runs[op.run_id].pages_processed = 1

\* the completed rows of the three columns of scope s
CompletedRuns(s) ==
    {r \in DOMAIN runs :
        /\ runs[r].status = STATUS_COMPLETED
        /\ runs[r].scope.country = s.country
        /\ runs[r].scope.catalogs_bundle = s.catalogs_bundle
        /\ runs[r].scope.params_fingerprint = s.params_fingerprint}

\* (ended_at, started_at) of a is not below that of b
NotEarlier(a, b) ==
    \/ runs[a].ended_at > runs[b].ended_at
    \/ runs[a].ended_at = runs[b].ended_at /\ runs[a].started_at >= runs[b].started_at

\* C30: latest_completed_run_id(scope) returns null when the scope has no
\* completed run, and otherwise the run_id of a row of that scope whose
\* status is completed and whose (ended_at, started_at) is the greatest
\* among those rows; it never returns a started, running or failed run or
\* a run of another scope.
C30_LatestCompleted ==
    op.name = "latest_completed_run_id" =>
        /\ CompletedRuns(op.scope) = {} => op.result = None
        /\ CompletedRuns(op.scope) # {} =>
              /\ op.result \in CompletedRuns(op.scope)
              /\ \A y \in CompletedRuns(op.scope) : runs[y].ended_at # NoTime
              /\ \A y \in CompletedRuns(op.scope) : NotEarlier(op.result, y)
        /\ op.result # None =>
              /\ op.result \in DOMAIN runs
              /\ runs[op.result].status = STATUS_COMPLETED
              /\ runs[op.result].scope = op.scope

\* C30 witness: the scope has two completed runs that ended at the same
\* time and the query returned the one that started later
C30_Witness ==
    /\ op.name = "latest_completed_run_id"
    /\ op.result # None
    /\ \E y \in CompletedRuns(op.scope) :
          /\ y # op.result
          /\ runs[y].ended_at = runs[op.result].ended_at
          /\ runs[y].started_at < runs[op.result].started_at

(***************************************************************************)
(* Two callers of ensure_started, each in a session of its own on          *)
(* PostgreSQL (READ COMMITTED).  A caller is the handshake of run_backfill *)
(* (inside "with session.begin()", worker.py:139-142) or a caller that     *)
(* uses the store on a session that begins transactions by itself.         *)
(***************************************************************************)
Callers == {"a", "b"}
Modes == {"begin", "autobegin"}

NoCaller == [pc |-> "idle", run_id |-> None, scope |-> None, mode |-> None,
             row |-> NoRow, result |-> NoRow, error |-> None]

RaceInit ==
    /\ WorkerIdle
    /\ runs = << >> /\ op = NoOp
    /\ callers = [c \in Callers |-> NoCaller]
    /\ ClientIdle
    /\ raw_table = << >> /\ pending = << >> /\ appended = << >>
    /\ records = << >> /\ kept = << >>
    /\ dialect = "postgresql" /\ index = EmptyIndex /\ upserts = << >>

RaceFrame ==
    UNCHANGED << worker, client_lab, raw_table, pending, appended, records, kept,
                 dialect, index, upserts >>

\* worker.py:138-142 / a direct call: ensure_started(run_id = r, scope = s)
RaceCall(c, r, s, m) ==
    /\ callers[c].pc = "idle"
    /\ callers' = [callers EXCEPT ![c] = [@ EXCEPT !.pc = "get", !.run_id = r,
                                                   !.scope = s, !.mode = m]]
    /\ UNCHANGED << runs, op >>
    /\ RaceFrame

\* ledger.py:133-135: session.get sees the committed rows; an existing row
\* is returned
RaceGetExisting(c) ==
    /\ callers[c].pc = "get"
    /\ callers[c].run_id \in DOMAIN runs
    /\ callers' = [callers EXCEPT ![c] = [@ EXCEPT !.pc = "returned",
                                                   !.result = runs[callers[c].run_id]]]
    /\ UNCHANGED << runs, op >>
    /\ RaceFrame

\* ledger.py:133-149: no row yet, the new row is built and added
RaceGetNone(c) ==
    /\ callers[c].pc = "get"
    /\ callers[c].run_id \notin DOMAIN runs
    /\ op' = [op EXCEPT !.now = @ + 1]
    /\ callers' = [callers EXCEPT ![c] =
                      [@ EXCEPT !.pc = "flush",
                                !.row = NewLedgerRow(callers[c].run_id, callers[c].scope,
                                                     op.now + 1)]]
    /\ UNCHANGED runs
    /\ RaceFrame

\* another caller holds an uncommitted insert of the same run_id
InsertHeld(c) ==
    \E d \in Callers \ {c} :
        callers[d].pc = "inserted" /\ callers[d].run_id = callers[c].run_id

\* ledger.py:151-154: the flush inserts the row; it waits while another
\* transaction holds an uncommitted insert of the primary key
RaceFlush(c) ==
    /\ callers[c].pc = "flush"
    /\ callers[c].run_id \notin DOMAIN runs
    /\ ~ InsertHeld(c)
    /\ callers' = [callers EXCEPT ![c] = [@ EXCEPT !.pc = "inserted"]]
    /\ UNCHANGED << runs, op >>
    /\ RaceFrame

\* ledger.py:154-157: the primary key is committed by another caller, the
\* flush raises IntegrityError and the handler rolls the session back
RaceFlushConflict(c) ==
    /\ callers[c].pc = "flush"
    /\ callers[c].run_id \in DOMAIN runs
    /\ callers' = [callers EXCEPT ![c] = [@ EXCEPT !.pc = "reload", !.row = NoRow]]
    /\ UNCHANGED << runs, op >>
    /\ RaceFrame

\* ledger.py:163-169, worker.py:140-142: ensure_started returns the new row
\* and the transaction commits
RaceCommit(c) ==
    /\ callers[c].pc = "inserted"
    /\ runs' = runs @@ (callers[c].run_id :> callers[c].row)
    /\ callers' = [callers EXCEPT ![c] = [@ EXCEPT !.pc = "returned", !.result = callers[c].row]]
    /\ UNCHANGED op
    /\ RaceFrame

\* ledger.py:158-161 on a session that begins transactions by itself: the
\* get after the rollback runs in a new transaction and loads the row
RaceReload(c) ==
    /\ callers[c].pc = "reload"
    /\ callers[c].mode = "autobegin"
    /\ callers' = [callers EXCEPT ![c] = [@ EXCEPT !.pc = "returned",
                                                   !.result = runs[callers[c].run_id]]]
    /\ UNCHANGED << runs, op >>
    /\ RaceFrame

\* ledger.py:157-158 inside "with session.begin()" (worker.py:139): the
\* rollback closed the transaction of the context manager, and the session
\* refuses the get with InvalidRequestError ("Can't operate on closed
\* transaction inside context manager"); worker.py:138-145 is outside the
\* try, so run_backfill raises it
RaceReloadRaises(c) ==
    /\ callers[c].pc = "reload"
    /\ callers[c].mode = "begin"
    /\ callers' = [callers EXCEPT ![c] = [@ EXCEPT !.pc = "raised",
                                                   !.error = "InvalidRequestError"]]
    /\ UNCHANGED << runs, op >>
    /\ RaceFrame

RaceNext ==
    \/ \E c \in Callers, r \in RunIds, s \in Scopes, m \in Modes : RaceCall(c, r, s, m)
    \/ \E c \in Callers : RaceGetExisting(c)
    \/ \E c \in Callers : RaceGetNone(c)
    \/ \E c \in Callers : RaceFlush(c)
    \/ \E c \in Callers : RaceFlushConflict(c)
    \/ \E c \in Callers : RaceCommit(c)
    \/ \E c \in Callers : RaceReload(c)
    \/ \E c \in Callers : RaceReloadRaises(c)

RaceSpec == RaceInit /\ [][RaceNext]_vars

\* C24: when two callers run ensure_started concurrently for the same
\* unknown run_id, exactly one row is created, the caller that loses the
\* insert reloads and returns the winner's row, and neither call, nor the
\* run_backfill handshake transaction that encloses it, surfaces an error.
C24_RaceTolerated ==
    \A c \in Callers :
        /\ callers[c].pc # "raised" /\ callers[c].error = None
        /\ callers[c].pc = "returned" =>
              /\ callers[c].run_id \in DOMAIN runs
              /\ callers[c].result = runs[callers[c].run_id]

Statuses == {200, 401, 404, 429, 500, 503}
Bodies == {"b1", "b2"}

\* what session.get meets: a response, or no response at all.  ConnectTimeout
\* is a subclass of ConnectionError, ReadTimeout is not
Failures == {"ConnectionError", "ConnectTimeout", "ReadTimeout"}
AttemptOutcomes ==
    {[kind |-> "response", status |-> 200, body |-> b] : b \in Bodies}
    \cup {[kind |-> "response", status |-> st, body |-> None] : st \in Statuses \ {200}}
    \cup {[kind |-> k, status |-> 0, body |-> None] : k \in Failures}

NoError == [type |-> None, status |-> 0]

\* client.py:67-68: the exception session.get or raise_for_status raises for
\* outcome o, NoError when the request succeeds
request_error(o) ==
    IF o.kind # "response" THEN [type |-> o.kind, status |-> 0]
    ELSE IF o.status >= 400 /\ o.status < 600 THEN [type |-> "HTTPError", status |-> o.status]
    ELSE NoError

\* a policy that retries whatever was raised
retries_every_error(exception) == TRUE

\* config.py:32-53
is_transient_error(exception) ==
    IF exception.type \in {"ConnectionError", "ConnectTimeout"} THEN TRUE
    ELSE IF exception.type = "HTTPError"
         THEN exception.status = 429 \/ exception.status >= 500
         ELSE FALSE

\* config.py:59: stop_after_attempt(3)
max_attempt_number == 3

\* a stop rule that allows one attempt more
stop_after_retries(attempt_number) == attempt_number > max_attempt_number

\* config.py:59: the stop rule of the policy
stop_after_attempt(attempt_number) == attempt_number >= max_attempt_number

FetchInit ==
    /\ WorkerIdle
    /\ ClientIdle
    /\ LedgerIdle
    /\ raw_table = << >> /\ pending = << >> /\ appended = << >>
    /\ records = << >> /\ kept = << >>
    /\ dialect = "sqlite" /\ index = EmptyIndex /\ upserts = << >>

FetchFrame ==
    UNCHANGED << worker, ledger_lab, raw_table, pending, appended, records, kept,
                 dialect, index, upserts >>

\* client.py:41-42: fetch_data is called
FetchData ==
    /\ outcome.state = "idle"
    /\ outcome' = [state |-> "trying", value |-> None]
    /\ UNCHANGED requests
    /\ FetchFrame

\* client.py:67-78: the request succeeds and the body is returned
AttemptReturns(o) ==
    /\ outcome.state = "trying"
    /\ request_error(o) = NoError
    /\ requests' = Append(requests, o)
    /\ outcome' = [state |-> "returned", value |-> o.body]
    /\ FetchFrame

\* client.py:80-90, config.py:57: the request fails, the policy does not
\* retry the exception and fetch_data raises it
AttemptRaises(o) ==
    /\ outcome.state = "trying"
    /\ request_error(o) # NoError
    /\ ~ is_transient_error(request_error(o))
    /\ requests' = Append(requests, o)
    /\ outcome' = [state |-> "raised", value |-> request_error(o)]
    /\ FetchFrame

\* config.py:57-58: the exception is retried after the wait
AttemptRetried(o) ==
    /\ outcome.state = "trying"
    /\ request_error(o) # NoError
    /\ is_transient_error(request_error(o))
    /\ ~ stop_after_attempt(Len(requests) + 1)
    /\ requests' = Append(requests, o)
    /\ UNCHANGED outcome
    /\ FetchFrame

\* config.py:59-60: the attempts are used up, the last exception is re-raised
AttemptExhausted(o) ==
    /\ outcome.state = "trying"
    /\ request_error(o) # NoError
    /\ is_transient_error(request_error(o))
    /\ stop_after_attempt(Len(requests) + 1)
    /\ requests' = Append(requests, o)
    /\ outcome' = [state |-> "raised", value |-> request_error(o)]
    /\ FetchFrame

FetchNext ==
    \/ FetchData
    \/ \E o \in AttemptOutcomes : AttemptReturns(o)
    \/ \E o \in AttemptOutcomes : AttemptRaises(o)
    \/ \E o \in AttemptOutcomes : AttemptRetried(o)
    \/ \E o \in AttemptOutcomes : AttemptExhausted(o)

FetchSpec == FetchInit /\ [][FetchNext]_vars

\* the request got a response of status 200
Succeeded(o) == o.kind = "response" /\ o.status = 200

\* the request failed with a connection error, HTTP 429 or HTTP 5xx
FailedTransiently(o) ==
    \/ o.kind \in {"ConnectionError", "ConnectTimeout"}
    \/ o.kind = "response" /\ (o.status = 429 \/ (o.status >= 500 /\ o.status <= 599))

\* C32: fetch_data does not retry non-transient failures: when the first
\* attempt fails with an error that is not a connection error and not HTTP
\* 429 or 5xx, the error is raised to the caller after exactly one request.
C32_NoRetryOfNonTransient ==
    (requests # << >> /\ ~ Succeeded(requests[1]) /\ ~ FailedTransiently(requests[1])) =>
        /\ Len(requests) = 1
        /\ outcome.state = "raised"
        /\ outcome.value = request_error(requests[1])

\* C32 witness: the one request was answered 401 and the call raised the
\* HTTPError of it
C32_Witness ==
    /\ Len(requests) = 1
    /\ requests[1].kind = "response" /\ requests[1].status = 401
    /\ outcome.state = "raised"
    /\ outcome.value.type = "HTTPError" /\ outcome.value.status = 401

\* C33: fetch_data retries transient failures with an attempt count of 3:
\* it returns the body of the first successful attempt when one occurs
\* within the first three attempts, and when three consecutive attempts
\* fail transiently it raises the last error after exactly 3 requests and
\* never makes a fourth.
C33_BoundedRetry ==
    LET n == Len(requests)
        allTransient(k) == \A i \in 1..k : FailedTransiently(requests[i])
    IN  /\ n <= 3
        /\ (n >= 1 /\ allTransient(n - 1) /\ Succeeded(requests[n])) =>
              outcome = [state |-> "returned", value |-> requests[n].body]
        /\ (n < 3 /\ allTransient(n)) => outcome.state \in {"idle", "trying"}
        /\ (n = 3 /\ allTransient(3)) =>
              outcome = [state |-> "raised", value |-> request_error(requests[3])]
        /\ outcome.state = "returned" => (allTransient(n - 1) /\ Succeeded(requests[n]))

\* C33 witness: 429, 429, 200 returned the 200 body after three requests
C33_Witness ==
    /\ Len(requests) = 3
    /\ requests[1].status = 429 /\ requests[2].status = 429
    /\ Succeeded(requests[3])
    /\ outcome = [state |-> "returned", value |-> requests[3].body]

\* C34: for every page request built by run_backfill, the request
\* parameters contain a cursor entry if and only if the worker's current
\* cursor is non-null, and then its value is exactly the cursor_next read
\* from the ledger (first request of an invocation) or the nextCursor of
\* the page just committed (later requests); with a null cursor the entry
\* is omitted, even if base_query_params carried a cursor key.
C34_CursorInRequest ==
    pc = "fetch" =>
        /\ fetched[Len(fetched)] = cursor_used
        /\ cursor_used = IF Len(fetched) = 1 THEN entry.row.cursor_next ELSE resp.nextCursor
        /\ \A base \in BaseParams, s \in Scopes :
              LET q == query_params(base, s, cursor_used) IN
              /\ ("cursor" \in DOMAIN q) <=> (cursor_used # None)
              /\ cursor_used # None => q["cursor"] = cursor_used

\* C34 witness: the first request of the invocation went out without a
\* cursor and the second one, in flight, carries the nextCursor "c1" of the
\* page committed
C34_Witness ==
    /\ pc = "fetch"
    /\ fetched = << None, "c1" >>
    /\ resp.nextCursor = "c1" /\ pages_done = 1

\* the working copy w of the page transaction holds the raw row of the page
RawWritten(w) ==
    \E i \in DOMAIN w.raw :
        /\ w.raw[i].run_id = run_id
        /\ w.raw[i].cursor_used = normalize_cursor_used(cursor_used)

\* the working copy w holds the rows of the page's records for table t
Written(w, t) == Range(RowsFor(t, batch[t])) \subseteq Range(w[t])

\* each write of the page transaction finds the writes before it done
WritesInOrder ==
    /\ (tx = << >> /\ tx' # << >>) =>
          /\ RawWritten(tx'[1])
          /\ \A t \in IndexTables : tx'[1][t] = db[t]
          /\ tx'[1].ledger = db.ledger
    /\ (tx # << >> /\ tx' # << >>) =>
          /\ tx'[1].raw = tx[1].raw /\ RawWritten(tx[1])
          /\ tx'[1].titles # tx[1].titles =>
                /\ tx[1].offers = db.offers /\ tx[1].assets = db.assets
                /\ tx[1].ledger = db.ledger
          /\ (tx'[1].offers # tx[1].offers \/ tx'[1].assets # tx[1].assets) =>
                /\ Written(tx[1], "titles")
                /\ tx[1].ledger = db.ledger
          /\ tx'[1].ledger # tx[1].ledger =>
                /\ \A t \in IndexTables : Written(tx[1], t) /\ tx'[1][t] = tx[1][t]
                /\ pc' = "tx_commit"
    /\ (pc = "tx_commit" /\ pages_done' = pages_done + 1) =>
          /\ tx[1].ledger # db.ledger
          /\ db' = tx[1]

\* C35: within each page's transaction the writes occur in the order raw
\* page append, title upsert, offer and asset upserts, ledger checkpoint as
\* the last write before commit; the title upsert precedes the offer and
\* asset upserts of the page, and the checkpoint is not issued before the
\* three index upserts of the page are done.
C35_WriteOrder == [][WritesInOrder]_vars

\* C35 witness: a page with titles, offers and assets has been written and
\* checkpointed, and its transaction is about to commit
C35_Witness ==
    /\ pc = "tx_commit"
    /\ batch.titles # << >> /\ batch.offers # << >> /\ batch.assets # << >>
    /\ RawWritten(tx[1])
    /\ \A t \in IndexTables : Written(tx[1], t)
    /\ tx[1].ledger[run_id].pages_processed = db.ledger[run_id].pages_processed + 1

(***************************************************************************)
(* The worker without fetch or storage failures and without crashes: an    *)
(* invocation, once called, takes its next step (run_backfill is one       *)
(* sequential loop, worker.py:159-266).                                    *)
(***************************************************************************)
Step ==
    \/ GetCursorNext
    \/ LoopStop
    \/ SendRequest
    \/ FetchOk
    \/ TxAppendRaw
    \/ TxExtract
    \/ TxUpsertTitles
    \/ TxUpsertAssets
    \/ TxCheckpoint
    \/ TxCommit

LiveNext ==
    \/ \E r \in run_ids, s \in Scopes, m \in MaxPagesArgs : Call(r, s, m)
    \/ Step
    \/ TxUpsertOffers

\* the offers step is enabled exactly at pc = "tx_offers" and leaves it, so
\* WF_vars(TxUpsertOffers) is the last conjunct written out
LiveSpec ==
    /\ Init /\ [][LiveNext]_vars
    /\ WF_vars(Step)
    /\ []<>(pc # "tx_offers")

\* within n pages from cursor c the provider reports hasMore = false
RECURSIVE EndsWithin(_, _, _)
EndsWithin(p, c, n) ==
    /\ n > 0
    /\ \/ p[c].hasMore = "False"
       \/ EndsWithin(p, p[c].nextCursor, n - 1)

\* the invocation at the head of its loop will stop: max_pages is set, or
\* the provider ends within the pages it has
WillStop ==
    \/ max_pages # NoLimit
    \/ EndsWithin(provider, cursor_next, Cardinality(CursorArgs))

\* the pages the invocation may still need fit the pages explored for a run
PagesFit ==
    LET need == IF max_pages # NoLimit THEN max_pages - pages_done
                ELSE Cardinality(CursorArgs)
    IN  Row(run_id).pages_processed + need <= MaxPagesRun

\* the commit of a page with hasMore = false returns, and nothing is
\* fetched after the return
StopsAtLastPage ==
    /\ (pc = "tx_commit" /\ resp.hasMore = "False") => pc' = "returned"
    /\ pc = "returned" => pc' \in {"returned", "read_cursor"}

\* C36: run_backfill repeats the fetch/persist step until the provider
\* signals no more pages or the page limit is reached: without fetch or
\* storage failure an invocation eventually returns whenever max_pages is
\* set or the provider reports hasMore = false after finitely many pages,
\* and it returns immediately after committing the first page that reports
\* hasMore = false, without fetching again.
C36_EventuallyReturns ==
    /\ (pc = "loop" /\ WillStop /\ PagesFit) ~> (pc = "returned")
    /\ [][StopsAtLastPage]_vars

\* C36 witness: an invocation without max_pages returned after the second
\* page, the first one with hasMore = false
C36_Witness ==
    /\ pc = "returned" /\ max_pages = NoLimit
    /\ pages_done = 2 /\ resp.hasMore = "False"
    /\ fetched = << None, "c1" >>

\* the page in hand reports hasMore = true and has no items
EmptyPage == resp.hasMore = "True" /\ resp.shows = << >>

\* the steps of the transaction of such a page
EmptyPageHandled ==
    /\ (EmptyPage /\ pc = "tx_raw" /\ tx' # << >>) =>
          /\ RawWritten(tx'[1])
          /\ append_inserted(db.raw, run_id, cursor_used) =>
                /\ Len(tx'[1].raw) = Len(db.raw) + 1
                /\ tx'[1].raw[Len(tx'[1].raw)].items_count = 0
                /\ tx'[1].raw[Len(tx'[1].raw)].has_more = "True"
    /\ (EmptyPage /\ pc \in {"tx_titles", "tx_offers", "tx_assets"} /\ tx' # << >>) =>
          /\ \A t \in IndexTables : batch[t] = << >>
          /\ tx' = tx
    /\ (EmptyPage /\ pc = "tx_commit" /\ pages_done' = pages_done + 1) =>
          /\ \A t \in IndexTables : db'[t] = db[t]
          /\ db'.ledger[run_id].cursor_next = resp.nextCursor
          /\ db'.ledger[run_id].pages_processed = db.ledger[run_id].pages_processed + 1
          /\ db'.ledger[run_id].items_processed = db.ledger[run_id].items_processed
          /\ db'.ledger[run_id].status = STATUS_RUNNING
          /\ cursor_next' = resp.nextCursor
          /\ pc' = "loop"

\* C37: a page that reports hasMore = true with an empty item list is
\* handled like any other page: its raw page is appended (a row with
\* items_count 0, unless the run already holds a row for the cursor), no
\* index upsert is issued, the checkpoint advances cursor_next to its
\* nextCursor and adds 1 to pages_processed and 0 to items_processed, the
\* run stays running and the loop continues, however many such pages came
\* before.
C37_EmptyPageNotSpecial == [][EmptyPageHandled]_vars

\* C37 witness: one invocation has committed two such pages in a row after
\* the first page and is back at the head of the loop
C37_Witness ==
    /\ pc = "loop" /\ EmptyPage
    /\ fetched = << None, "c1", "c1" >>
    /\ pages_done = 3
    /\ Row(run_id).pages_processed = 3
    /\ Row(run_id).items_processed = Len(provider[None].shows)
    /\ Row(run_id).status = STATUS_RUNNING

\* the raw page rows committed for run r, in table order
RawRowsOf(r) == SelectSeq(db.raw, LAMBDA row : row.run_id = r)

\* C38: in every committed state, for every run, pages_processed equals
\* the number of raw page rows stored for the run and items_processed
\* equals the sum of items_count over those rows, whatever the provider
\* returns (a nextCursor it has returned before included) and whatever the
\* sequence of invocations, failures and resumes.
C38_CountersMatchRawPages ==
    \A r \in DOMAIN db.ledger :
        /\ Row(r).pages_processed = Len(RawRowsOf(r))
        /\ Row(r).items_processed =
              SumSeq([i \in DOMAIN RawRowsOf(r) |-> RawRowsOf(r)[i].items_count])

\* the worker completes a run only with hasMore = false, and a page without
\* hasMore is counted, leaves the run running and the loop going
NullHasMoreGoesOn ==
    /\ \A r \in DOMAIN db.ledger :
          (db'.ledger[r].status = STATUS_COMPLETED /\ Row(r).status # STATUS_COMPLETED) =>
              /\ pc = "tx_commit" /\ r = run_id
              /\ resp.hasMore = "False"
    /\ (pc = "tx_commit" /\ resp.hasMore = None /\ pages_done' = pages_done + 1) =>
          /\ db'.ledger[run_id].status = STATUS_RUNNING
          /\ db'.ledger[run_id].pages_processed = Row(run_id).pages_processed + 1
          /\ db'.ledger[run_id].cursor_next = resp.nextCursor
          /\ pc' = "loop"
    /\ (pc = "loop" /\ pages_done >= 1 /\ resp.hasMore = None /\ max_pages = NoLimit) =>
          /\ pc' # "returned"
          /\ Row(run_id).pages_processed < MaxPagesRun => ENABLED SendRequest
    /\ (pc = "loop" /\ pc' = "fetch" /\ pages_done >= 1
            /\ resp.hasMore = None /\ resp.nextCursor = None) =>
          fetched' = Append(fetched, None)

\* C39: the worker completes a run only on a page whose hasMore is exactly
\* false: a response without hasMore (null) is checkpointed with status
\* running and does not stop the loop, and when its nextCursor is null too
\* the next request is again a first-page request without cursor, so that
\* without max_pages the invocation keeps fetching and counting pages.
C39_OnlyFalseCompletes == [][NullHasMoreGoesOn]_vars

\* C39 witness: an invocation without max_pages has committed two pages
\* without hasMore and nextCursor and sends its third first-page request
C39_Witness ==
    /\ pc = "fetch" /\ max_pages = NoLimit
    /\ fetched = << None, None, None >>
    /\ resp.hasMore = None /\ resp.nextCursor = None
    /\ pages_done = 2
    /\ Row(run_id).pages_processed = 2 /\ Row(run_id).status = STATUS_RUNNING

\* the orders in which the records of the batch can be given
BatchOrders ==
    {f \in [DOMAIN records -> DOMAIN records] :
        \A i, j \in DOMAIN records : f[i] = f[j] => i = j}

\* the batch in the order f
Reordered(f) == [i \in DOMAIN records |-> records[f[i]]]

\* no two records of one key tie on quality rank, watch_link presence and
\* available_since
RulesDistinguish ==
    \A i, j \in DOMAIN records :
        (i # j /\ OfferKey(records[i]) = OfferKey(records[j]))
            => ~ (LexLeq(records[i], records[j]) /\ LexLeq(records[j], records[i]))

\* C40: the deduplication within a batch does not depend on the input order
\* whenever the rules distinguish the candidates: for every offer batch in
\* which no two records of one key tie on all of quality rank, watch_link
\* presence and available_since, every permutation of the batch yields the
\* same kept record for each key.
C40_DedupeOrderIndependent ==
    RulesDistinguish =>
        \A f \in BatchOrders : Range(dedupe_offers(Reordered(f))) = Range(Deduped)
====
